---- MODULE Spec2Model ----
(***************************************************************************)
(* A model of the NEAT read simulator: the driver genReads.py (main) and   *)
(* the binary-alignment helpers of output_file_writer.py.                  *)
(*                                                                         *)
(* The module holds several specifications over one set of variables:      *)
(*   SpecBam    write_bam_record's use of reg2bin on one read              *)
(*   SpecMerge  merge_temp_fastqs on one set of temporary files            *)
(*   SpecFrag   main up to the construction of the fragment-length model   *)
(*   SpecValid  main up to the validation of the input variants            *)
(*   Spec       main: seeding, variant validation, window tiling, the      *)
(*              model engine's calls, read sampling and output             *)
(*   SpecTwice  main run twice on the same command line                    *)
(* A specification leaves the variables of the other components idle.      *)
(***************************************************************************)
EXTENDS Integers, Sequences, FiniteSets, TLC

VARIABLES
    pc,             \* the position of the running procedure
    read,           \* write_bam_record: the read handed in (position, end_point)
    read_bin,       \* write_bam_record: the bin computed for the read
    bam_handle,     \* write_bam_record: the bytes written to the handle (None: nothing yet)
    fastq_files,    \* merge_temp_fastqs: the temporary files handed in, one entry per contig
    fastq_index_dict,       \* merge_temp_fastqs: contig name -> the indexes of its files
    paired_keys,    \* merge_temp_fastqs: the (read 1, read 2) keys of the paired records
    singleton_keys, \* merge_temp_fastqs: the keys of the singleton records
    shuffled_paired_keys,
    shuffled_singleton_keys,
    merge_i,        \* merge_temp_fastqs: the writing loops' position (paired, then singletons)
    wrote_r2,
    fq1,            \* merge_temp_fastqs: the first output (None: no file; else its records)
    fq2,            \* merge_temp_fastqs: the second output (None: no file; else its records)
    options,        \* OutputFileWriter(): the options of the run
    bam_header,     \* OutputFileWriter(): the header map handed in (None when left out)
    files_to_write, \* OutputFileWriter(): self.files_to_write
    ofw_i,          \* OutputFileWriter(): the validation loop's position
    disk,           \* the output directory: whether it is writable, and its files with their content
    MUT_BED,        \* main: the lines of the mutation-rate BED file (None: no file given)
    mut_i,          \* main: the line of the mutation-rate BED file that is parsed next
    mutRateRegions, \* main: contig name -> the boundaries of its regions
    mutRateValues,  \* main: contig name -> the values of its regions
    args,           \* main: the parsed command line, with the content of the files it names
    myRegions,      \* main: the regions of this job (None in a run of one job)
    OFW,            \* main: the OutputFileWriter (None until it is constructed)
    RNG_SEED,       \* main: the seed given to random.seed
    FRAGMENT_SIZE,  \* main: the mean fragment length (None in single-end mode)
    FRAGLEN_DISTRIBUTION,   \* main: the fragment-length distribution (None until built)
    RI,             \* main: the contig loop's index (1-based here)
    validVariants,  \* main: the input variants of the contig that passed validation
    nSkipped,       \* main: the three rejection counters
    vIdx,           \* main: the validation loop's position in the contig's input variants
    ALL_VARIANTS_OUT,       \* main: the contig's realized variants (the dict's keys)
    sequences,      \* main: the model engine (None, or the window it was last armed with)
    region_i,       \* main: the region loop's index i (1-based here)
    bpd,            \* main: the window step of the region
    start,          \* main: the window's start
    end,            \* main: the window's end
    next_start,
    next_end,
    isLastTime,
    vindFromPrev,   \* main: where the next window's scan of validVariants starts (1-based here)
    varsFromPrevOverlap,    \* main: the realized variants carried into the next window
    varsInWindow,   \* main: the input variants gathered into the window
    coverage_sum2,  \* main: twice sum(coverage_dat[2]) (weights are multiples of 1/2)
    skip_this_window,
    currentProgress,        \* main: the bases of the contig's windows so far
    currentPercent, \* main: the last percentage the progress reached
    havePrinted100, \* main: '100%' was printed by the window loop
    printed,        \* stdout: the percentages printed for the contig, in order
    all_inserted_variants,  \* main: what random_mutations returned for the window
    readsLeft,      \* main: the iterations the sampling loop has left
    readNameCount,
    unmapped_records,
    fastq,          \* OutputFileWriter: the write_fastq_record calls, in order
    bam,            \* OutputFileWriter: the write_bam_record calls, in order
    vcf,            \* OutputFileWriter: the write_vcf_record calls, in order
    gathered,       \* history: how many windows gathered each valid variant of the contig
    regionSkips,    \* history: the windows of the current region that were skipped
    windows,        \* history: the windows of the run, in order, with what became of each
    sampled,        \* history: the reads sample_read returned, in order
    twice           \* the second run's harness: the run number and the first run's record

bamVars == <<read, read_bin, bam_handle>>
mergeVars == <<fastq_files, fastq_index_dict, paired_keys, singleton_keys, shuffled_paired_keys,
               shuffled_singleton_keys, merge_i, wrote_r2, fq1, fq2>>
ctorVars == <<options, bam_header, files_to_write, ofw_i, disk>>
ofwVars == <<bamVars, mergeVars, ctorVars>>
mutVars == <<MUT_BED, mut_i, mutRateRegions, mutRateValues>>
jobVars == <<myRegions, OFW>>
seedVars == <<RNG_SEED, twice>>
modelVars == <<FRAGMENT_SIZE, FRAGLEN_DISTRIBUTION>>
contigVars == <<RI, validVariants, nSkipped, vIdx, ALL_VARIANTS_OUT, sequences>>
winVars == <<region_i, bpd, start, end, next_start, next_end, isLastTime, vindFromPrev,
             varsFromPrevOverlap, varsInWindow, coverage_sum2, skip_this_window>>
progVars == <<currentProgress, currentPercent, havePrinted100, printed>>
readVars == <<all_inserted_variants, readsLeft, readNameCount, unmapped_records>>
outVars == <<fastq, bam, vcf>>
histVars == <<gathered, regionSkips, windows, sampled>>
mainVars == <<args, mutVars, jobVars, seedVars, modelVars, contigVars, winVars, progVars, readVars, outVars, histVars>>

vars == <<pc, ofwVars, mainVars>>

\* Python's None, and a value that may be None: <<>> or <<x>>.
None == <<>>
Some(x) == <<x>>
Val(o) == o[1]

RECURSIVE Pow2(_)
Pow2(k) == IF k = 0 THEN 1 ELSE 2 * Pow2(k - 1)

\* Python's x >> k on an integer: floor division by 2^k.
Shr(x, k) == x \div Pow2(k)

Max(a, b) == IF a > b THEN a ELSE b
Min(a, b) == IF a < b THEN a ELSE b
Abs(a) == IF a < 0 THEN -a ELSE a

\* Sequence helpers for Python's list operations.
RECURSIVE SeqMax(_)
SeqMax(s) ==
    IF Len(s) = 1 THEN s[1]
    ELSE LET m == SeqMax(Tail(s)) IN IF s[1] > m THEN s[1] ELSE m

RECURSIVE SeqSum(_)
SeqSum(s) == IF s = <<>> THEN 0 ELSE s[1] + SeqSum(Tail(s))

\* range(a, b)
Range(a, b) == [k \in 1..(IF b > a THEN b - a ELSE 0) |-> a + k - 1]

\* The state of a component nothing has touched.
BamIdle == read = None /\ read_bin = None /\ bam_handle = None

MergeIdle ==
    /\ fastq_files = <<>> /\ fastq_index_dict = <<>>
    /\ paired_keys = <<>> /\ singleton_keys = <<>>
    /\ shuffled_paired_keys = <<>> /\ shuffled_singleton_keys = <<>>
    /\ merge_i = 0 /\ wrote_r2 = FALSE /\ fq1 = None /\ fq2 = None

CtorIdle ==
    /\ options = None /\ bam_header = None /\ files_to_write = <<>> /\ ofw_i = 0 /\ disk = None

OfwIdle == BamIdle /\ MergeIdle /\ CtorIdle

MutIdle == MUT_BED = None /\ mut_i = 0 /\ mutRateRegions = <<>> /\ mutRateValues = <<>>

MainIdle ==
    /\ MutIdle
    /\ args = None /\ RNG_SEED = None /\ twice = None
    /\ myRegions = None /\ OFW = None
    /\ FRAGMENT_SIZE = None /\ FRAGLEN_DISTRIBUTION = None
    /\ RI = 0 /\ validVariants = <<>> /\ nSkipped = <<0, 0, 0>> /\ vIdx = 0
    /\ ALL_VARIANTS_OUT = {} /\ sequences = None
    /\ region_i = 0 /\ bpd = 0 /\ start = 0 /\ end = 0 /\ next_start = 0 /\ next_end = 0
    /\ isLastTime = FALSE /\ vindFromPrev = 1 /\ varsFromPrevOverlap = <<>>
    /\ varsInWindow = <<>> /\ coverage_sum2 = 0 /\ skip_this_window = FALSE
    /\ currentProgress = 0 /\ currentPercent = 0 /\ havePrinted100 = FALSE /\ printed = <<>>
    /\ all_inserted_variants = <<>> /\ readsLeft = 0 /\ readNameCount = 1
    /\ unmapped_records = <<>>
    /\ fastq = <<>> /\ bam = <<>> /\ vcf = <<>>
    /\ gathered = <<>> /\ regionSkips = 0 /\ windows = <<>> /\ sampled = <<>>

(***************************************************************************)
(* output_file_writer.py: reg2bin                                          *)
(***************************************************************************)

reg2bin_noDecrement(beg, rend) ==
    IF Shr(beg, 14) = Shr(rend, 14) THEN (Pow2(15) - 1) \div 7 + Shr(beg, 14)
    ELSE IF Shr(beg, 17) = Shr(rend, 17) THEN (Pow2(12) - 1) \div 7 + Shr(beg, 17)
    ELSE IF Shr(beg, 20) = Shr(rend, 20) THEN (Pow2(9) - 1) \div 7 + Shr(beg, 20)
    ELSE IF Shr(beg, 23) = Shr(rend, 23) THEN (Pow2(6) - 1) \div 7 + Shr(beg, 23)
    ELSE IF Shr(beg, 26) = Shr(rend, 26) THEN (Pow2(3) - 1) \div 7 + Shr(beg, 26)
    ELSE 0

reg2bin_finestFromZero(beg, rend) ==
    LET e == rend - 1 IN
    IF Shr(beg, 14) = Shr(e, 14) THEN (Pow2(15) - 1) \div 7 - 1 + Shr(beg, 14)
    ELSE IF Shr(beg, 17) = Shr(e, 17) THEN (Pow2(12) - 1) \div 7 + Shr(beg, 17)
    ELSE IF Shr(beg, 20) = Shr(e, 20) THEN (Pow2(9) - 1) \div 7 + Shr(beg, 20)
    ELSE IF Shr(beg, 23) = Shr(e, 23) THEN (Pow2(6) - 1) \div 7 + Shr(beg, 23)
    ELSE IF Shr(beg, 26) = Shr(e, 26) THEN (Pow2(3) - 1) \div 7 + Shr(beg, 26)
    ELSE 0

\* reg2bin(beg, end): the bin of the interval [beg, end).
reg2bin(beg, rend) ==
    LET e == rend - 1 IN
    IF Shr(beg, 14) = Shr(e, 14) THEN (Pow2(15) - 1) \div 7 + Shr(beg, 14)
    ELSE IF Shr(beg, 17) = Shr(e, 17) THEN (Pow2(12) - 1) \div 7 + Shr(beg, 17)
    ELSE IF Shr(beg, 20) = Shr(e, 20) THEN (Pow2(9) - 1) \div 7 + Shr(beg, 20)
    ELSE IF Shr(beg, 23) = Shr(e, 23) THEN (Pow2(6) - 1) \div 7 + Shr(beg, 23)
    ELSE IF Shr(beg, 26) = Shr(e, 26) THEN (Pow2(3) - 1) \div 7 + Shr(beg, 26)
    ELSE 0

\* Bounds of the coordinates tried: each level boundary m * 2^k, m in 1..MaxMult,
\* and the positions within Slack of it.
Slack == 1
MaxMult == 2

BinShifts == {14, 17, 20, 23, 26, 29}

Coordinates ==
    { c \in { m * Pow2(k) + d : m \in 1..MaxMult, k \in BinShifts \ {29}, d \in (-Slack)..Slack }
            \cup { Pow2(29) + d : d \in (-Slack)..Slack }
            \cup 0..Slack : c >= 0 }


(***************************************************************************)
(* output_file_writer.py: OutputFileWriter.write_bam_record                *)
(***************************************************************************)

\* Lines 33-35.
CIGAR_PACKED(letter) ==
    CASE letter = <<"M">> -> 0 [] letter = <<"I">> -> 1 [] letter = <<"D">> -> 2
      [] letter = <<"N">> -> 3 [] letter = <<"S">> -> 4 [] letter = <<"H">> -> 5
      [] letter = <<"P">> -> 6 [] letter = <<"=">> -> 7 [] letter = <<"X">> -> 8

SEQ_PACKED(c) ==
    CASE c = "=" -> 0 [] c = "A" -> 1 [] c = "C" -> 2 [] c = "M" -> 3 [] c = "G" -> 4
      [] c = "R" -> 5 [] c = "S" -> 6 [] c = "V" -> 7 [] c = "T" -> 8 [] c = "W" -> 9
      [] c = "Y" -> 10 [] c = "H" -> 11 [] c = "K" -> 12 [] c = "D" -> 13 [] c = "B" -> 14
      [] c = "N" -> 15

\* str.capitalize() of one character.
capitalize(c) ==
    CASE c = "a" -> "A" [] c = "c" -> "C" [] c = "g" -> "G" [] c = "t" -> "T"
      [] c = "n" -> "N" [] OTHER -> c

\* A decimal digit's value; -1 for any other character.
DigitValue(c) ==
    CASE c = "0" -> 0 [] c = "1" -> 1 [] c = "2" -> 2 [] c = "3" -> 3 [] c = "4" -> 4
      [] c = "5" -> 5 [] c = "6" -> 6 [] c = "7" -> 7 [] c = "8" -> 8 [] c = "9" -> 9
      [] OTHER -> -1

\* One pass over the CIGAR string for re.split(r"\d+", cigar) and
\* re.findall(r"\d+", cigar): pieces are the strings around the runs of digits,
\* numbers the runs; run is the number being read (None outside a run).
RECURSIVE ScanCigar(_, _)
ScanCigar(s, acc) ==
    IF s = <<>>
    THEN [pieces |-> acc.pieces,
          numbers |-> IF acc.run = None THEN acc.numbers ELSE Append(acc.numbers, Val(acc.run))]
    ELSE IF DigitValue(s[1]) >= 0
    THEN ScanCigar(Tail(s),
            IF acc.run = None
            THEN [pieces |-> Append(acc.pieces, <<>>), numbers |-> acc.numbers,
                  run |-> Some(DigitValue(s[1]))]
            ELSE [acc EXCEPT !.run = Some(10 * Val(acc.run) + DigitValue(s[1]))])
    ELSE ScanCigar(Tail(s),
            [pieces |-> [acc.pieces EXCEPT ![Len(acc.pieces)] = Append(@, s[1])],
             numbers |-> IF acc.run = None THEN acc.numbers ELSE Append(acc.numbers, Val(acc.run)),
             run |-> None])

\* Lines 341-342.
cig_letters(cigar) == Tail(ScanCigar(cigar, [pieces |-> << <<>> >>, numbers |-> <<>>, run |-> None]).pieces)

cig_numbers(cigar) == ScanCigar(cigar, [pieces |-> << <<>> >>, numbers |-> <<>>, run |-> None]).numbers

\* struct.pack('<i', x), -2^31 <= x < 2^31: four bytes, the lowest first, a
\* negative number in two's complement.
pack32(x) ==
    LET v == IF x < 0 THEN (x + 2147483647) + 1 ELSE x
    IN  << v % 256, (v \div 256) % 256, (v \div 65536) % 256,
           (v \div 16777216) + (IF x < 0 THEN 128 ELSE 0) >>

\* struct.pack('<I', (high << 16) + low), 0 <= (high << 16) + low < 2^32.
pack32_shifted(high, low) ==
    LET upper == high + (low \div 65536)
    IN  << low % 256, (low \div 256) % 256, upper % 256, (upper \div 256) % 256 >>

\* str.encode('utf-8') of one character, given by its code point.
utf8(cp) ==
    IF cp < 128 THEN << cp >>
    ELSE IF cp < 2048 THEN << 192 + (cp \div 64), 128 + (cp % 64) >>
    ELSE IF cp < 65536
    THEN << 224 + (cp \div 4096), 128 + ((cp \div 64) % 64), 128 + (cp % 64) >>
    ELSE << 240 + (cp \div 262144), 128 + ((cp \div 4096) % 64), 128 + ((cp \div 64) % 64),
            128 + (cp % 64) >>

RECURSIVE encode(_)
encode(s) == IF s = <<>> THEN <<>> ELSE utf8(s[1]) \o encode(Tail(s))

\* Lines 354-356.
RECURSIVE encoded_cig(_, _)
encoded_cig(letters, numbers) ==
    IF letters = <<>> THEN <<>>
    ELSE pack32(numbers[1] * 16 + CIGAR_PACKED(letters[1])) \o encoded_cig(Tail(letters), Tail(numbers))

\* Line 358.
encoded_len(alt_sequence) == (Len(alt_sequence) + 1) \div 2

\* Lines 359-369: the sequence, padded by "=" when its length is odd, two bases
\* to the byte.
encoded_seq(alt_sequence) ==
    LET padded == IF Len(alt_sequence) % 2 = 1 THEN Append(alt_sequence, "=") ELSE alt_sequence
    IN  [i \in 1..encoded_len(alt_sequence) |->
            SEQ_PACKED(capitalize(padded[2 * i - 1])) * 16 + SEQ_PACKED(capitalize(padded[2 * i]))]

\* Line 372: chr(ord(n) - 33) of every quality character, as code points.
encoded_qual(quality) == [k \in 1..Len(quality) |-> quality[k] - 33]

\* Line 389.
block_size_noTerminator(r) ==
    32 + Len(r.name) + Len(encoded_cig(cig_letters(r.cigar), cig_numbers(r.cigar)))
       + Len(encoded_seq(r.read_sequence)) + Len(r.read_quality_string)

block_size(r) ==
    32 + Len(r.name) + 1 + Len(encoded_cig(cig_letters(r.cigar), cig_numbers(r.cigar)))
       + Len(encoded_seq(r.read_sequence)) + Len(r.read_quality_string)

\* Lines 391-406: the record as written.
bam_record(r, contig_id, bin) ==
    LET mate_position == r.mpos
        next_pos == IF mate_position = None \/ mate_position = Some(0) THEN 0 ELSE Val(mate_position)
        template_length == IF mate_position = None \/ mate_position = Some(0) THEN 0 ELSE r.tlen
        cig_ops == Len(cig_letters(r.cigar))
    IN  pack32(block_size(r))
        \o pack32(contig_id)
        \o pack32(r.position + 1)
        \o pack32_shifted(bin, r.mapping_quality * 256 + Len(r.name) + 1)
        \o pack32_shifted(r.flag, cig_ops)
        \o pack32(Len(r.read_sequence))
        \o pack32(contig_id)
        \o pack32(next_pos)
        \o pack32(template_length)
        \o encode(r.name) \o << 0 >>
        \o encoded_cig(cig_letters(r.cigar), cig_numbers(r.cigar))
        \o encoded_seq(r.read_sequence)
        \o encode(encoded_qual(r.read_quality_string))

\* The reads tried: a name (code points), what make_cigar, calculate_flags,
\* get_mpos and get_tlen return, the bases and the quality characters (code
\* points, '!' = 33 to '~' = 126).
ReadNames == { << 114 >>, << 78, 69, 65, 84, 45, 99, 104, 114, 49, 45, 114, 49, 50 >> }

Alignments ==
    { [cigar |-> <<"1", "M">>, read_sequence |-> <<"A">>, read_quality_string |-> <<33>>],
      [cigar |-> <<"2", "M", "1", "I">>, read_sequence |-> <<"a", "c", "N">>,
       read_quality_string |-> <<33, 126, 53>>],
      [cigar |-> <<"1", "M", "1", "D", "1", "M">>, read_sequence |-> <<"G", "T">>,
       read_quality_string |-> <<73, 73>>],
      [cigar |-> <<"1", "2", "M">>,
       read_sequence |-> <<"A", "C", "G", "T", "A", "C", "G", "T", "N", "N", "A", "C">>,
       read_quality_string |-> <<40, 41, 42, 43, 44, 45, 46, 47, 48, 49, 50, 51>>],
      [cigar |-> <<"2", "S", "3", "M">>, read_sequence |-> <<"t", "t", "A", "C", "G">>,
       read_quality_string |-> <<35, 35, 70, 70, 70>>] }

MatePositions == { None, Some(0), Some(7) }

ReadOf(c, n, a, m) ==
    [position |-> c[1], end_point |-> c[2], name |-> n, cigar |-> a.cigar,
     read_sequence |-> a.read_sequence, read_quality_string |-> a.read_quality_string,
     mpos |-> m, tlen |-> 40, flag |-> 99, mapping_quality |-> 70]

\* Every pair of coordinates with one content, and every content at the start
\* of a contig and at the first boundary.
Reads ==
    { ReadOf(c, << 114 >>,
             [cigar |-> <<"1", "M">>, read_sequence |-> <<"A">>, read_quality_string |-> <<33>>],
             None) : c \in Coordinates \X Coordinates }
    \cup { ReadOf(c, n, a, m) : c \in { <<0, 12>>, <<Pow2(14) - 1, Pow2(14) + 11>> },
                                 n \in ReadNames, a \in Alignments, m \in MatePositions }

\* The contig ids handed to write_bam_record.
ContigIds == { 0, 1 }

\* A read about to be written.
BamInit ==
    /\ pc = "bam_record"
    /\ read \in Reads
    /\ read_bin = None
    /\ bam_handle = None
    /\ MergeIdle
    /\ CtorIdle
    /\ MainIdle

\* Lines 326-406.
write_bam_record ==
    /\ pc = "bam_record"
    /\ read_bin' = reg2bin(read.position, read.end_point)
    /\ \E contig_id \in ContigIds :
         bam_handle' = Some(bam_record(read, contig_id, reg2bin(read.position, read.end_point)))
    /\ pc' = "bam_written"
    /\ UNCHANGED <<read, mergeVars, ctorVars, mainVars>>

InitBam == BamInit
NextBam == write_bam_record
SpecBam == InitBam /\ [][NextBam]_vars

(***************************************************************************)
(* output_file_writer.py: OutputFileWriter.__init__                        *)
(***************************************************************************)

\* The files of the output directory options.output.parent, options.output.stem
\* being "out".
FastaNames(ploidy) ==
    IF ploidy > 1 THEN [i \in 1..ploidy |-> <<"out_ploid", i, ".fasta.gz">>]
    ELSE << <<"out.fasta.gz">> >>

FASTQ1_PAIRED == <<"out_r1.fastq.gz">>
FASTQ2_PAIRED == <<"out_r2.fastq.gz">>
FASTQ1_SINGLE == <<"out.fastq.gz">>
FASTQ2_DUMMY == <<"dummy.fastq.gz">>
BAM_FN == <<"out_golden.bam">>
VCF_FN == <<"out_golden.vcf.gz">>

\* Lines 100-127: the files named for the options, in the order of the list.
FilesToWrite_WithoutBam(opts) ==
    (IF opts.produce_fasta THEN FastaNames(opts.ploidy) ELSE <<>>)
    \o (IF opts.paired_ended /\ opts.produce_fastq THEN <<FASTQ1_PAIRED, FASTQ2_PAIRED>>
        ELSE IF opts.produce_fastq THEN <<FASTQ1_SINGLE, FASTQ2_DUMMY>>
        ELSE <<>>)
    \o (IF opts.produce_vcf THEN <<VCF_FN>> ELSE <<>>)

FilesToWrite(opts) ==
    (IF opts.produce_fasta THEN FastaNames(opts.ploidy) ELSE <<>>)
    \o (IF opts.paired_ended /\ opts.produce_fastq THEN <<FASTQ1_PAIRED, FASTQ2_PAIRED>>
        ELSE IF opts.produce_fastq THEN <<FASTQ1_SINGLE, FASTQ2_DUMMY>>
        ELSE <<>>)
    \o (IF opts.produce_bam THEN <<BAM_FN>> ELSE <<>>)
    \o (IF opts.produce_vcf THEN <<VCF_FN>> ELSE <<>>)

\* Lines 81-127: the flags are set and the files are named; list(bam_header) of a
\* header that was left out raises TypeError.
OfwNameFiles ==
    /\ pc = "ofw_init"
    /\ IF options.produce_bam /\ bam_header = None
       THEN /\ pc' = "ofw_exception"
            /\ UNCHANGED <<files_to_write, ofw_i>>
       ELSE /\ files_to_write' = FilesToWrite(options)
            /\ ofw_i' = 1
            /\ pc' = "ofw_validate"
    /\ UNCHANGED <<options, bam_header, disk, bamVars, mergeVars, mainVars>>

\* Line 130: x != "dummy.fastq.gz" for a file of the list. The files are Path
\* objects, and a Path is never equal to a str.
DiffersFromStr(path, string) == TRUE

\* validate_output_path(path, True, overwrite): the directory can be written to,
\* and the file is not there unless it may be overwritten.
validate_output_path(path, overwrite, d) ==
    d.writable /\ (path \in DOMAIN d.files => overwrite)

\* Lines 130-131: one iteration of the validation loop.
OfwValidate ==
    /\ pc = "ofw_validate"
    /\ ofw_i <= Len(files_to_write)
    /\ IF ~DiffersFromStr(files_to_write[ofw_i], "dummy.fastq.gz")
          \/ validate_output_path(files_to_write[ofw_i], options.overwrite_output, disk)
       THEN /\ ofw_i' = ofw_i + 1
            /\ pc' = "ofw_validate"
       ELSE /\ ofw_i' = ofw_i
            /\ pc' = "ofw_exception"
    /\ UNCHANGED <<options, bam_header, files_to_write, disk, bamVars, mergeVars, mainVars>>

\* Lines 142-159: the lines of the VCF header.
VCF_HEADER ==
    << "##fileformat=VCFv4.1", "##reference", "##Generated by NEAT with RNG value",
       "##INFO=<ID=DP", "##INFO=<ID=AF", "##INFO=<ID=VMX", "##INFO=<ID=VNX", "##INFO=<ID=VFX",
       "##ALT=<ID=DEL", "##ALT=<ID=DUP", "##ALT=<ID=INS", "##ALT=<ID=INV", "##ALT=<ID=CNV",
       "##ALT=<ID=TRANS", "##ALT=<ID=INV-TRANS", "##FORMAT=<ID=GT",
       "#CHROM POS ID REF ALT QUAL FILTER INFO FORMAT NEAT_simulated_sample" >>

\* open_output(path, mode) can open the file: mode 'xt' creates it and fails
\* when it is there; mode 'wt' creates or empties it.
CanOpen(path, mode, d) == d.writable /\ (mode = "xt" => path \notin DOMAIN d.files)

WithFile(d, path, content) ==
    [d EXCEPT !.files = [f \in (DOMAIN d.files) \cup {path} |->
                            IF f = path THEN content ELSE d.files[f]]]

\* Lines 133-159: the VCF header is written when a VCF is produced.
OfwWriteHeader ==
    /\ pc = "ofw_validate"
    /\ ofw_i > Len(files_to_write)
    /\ LET mode == IF options.overwrite_output THEN "wt" ELSE "xt"
       IN  IF ~options.produce_vcf
           THEN pc' = "ofw_ready" /\ disk' = disk
           ELSE IF CanOpen(VCF_FN, mode, disk)
           THEN pc' = "ofw_ready" /\ disk' = WithFile(disk, VCF_FN, VCF_HEADER)
           ELSE pc' = "ofw_exception" /\ disk' = disk
    /\ UNCHANGED <<options, bam_header, files_to_write, ofw_i, bamVars, mergeVars, mainVars>>

\* The options tried, and the output directories: at most MaxExisting of the
\* files a run can name are there already.
MaxExisting == 1

Ploidies12 == 1..2

OptionsTried ==
    [ produce_fastq : BOOLEAN, produce_fasta : BOOLEAN, produce_bam : BOOLEAN,
      produce_vcf : BOOLEAN, paired_ended : BOOLEAN, ploidy : Ploidies12,
      overwrite_output : BOOLEAN ]

OutputNames ==
    UNION { { FastaNames(p)[i] : i \in 1..Len(FastaNames(p)) } : p \in Ploidies12 }
    \cup { FASTQ1_PAIRED, FASTQ2_PAIRED, FASTQ1_SINGLE, FASTQ2_DUMMY, BAM_FN, VCF_FN }

Disks ==
    { [writable |-> w, files |-> [f \in there |-> <<"old">>]] :
        w \in BOOLEAN, there \in { s \in SUBSET OutputNames : Cardinality(s) <= MaxExisting } }

InitOfw ==
    /\ pc = "ofw_init"
    /\ options \in OptionsTried
    /\ bam_header \in { None, Some(<< <<"chr1", 60>> >>) }
    /\ files_to_write = <<>>
    /\ ofw_i = 0
    /\ disk \in Disks
    /\ BamIdle
    /\ MergeIdle
    /\ MainIdle

NextOfw == OfwNameFiles \/ OfwValidate \/ OfwWriteHeader

SpecOfw == InitOfw /\ [][NextOfw]_vars

(***************************************************************************)
(* output_file_writer.py: OutputFileWriter.merge_temp_fastqs               *)
(***************************************************************************)

\* Strings are lists of characters. The literals of the method:
SUFFIX_R1_PAIRED == <<"_", "r", "1", "_", "p", "a", "i", "r", "e", "d", ".", "f", "q", ".", "b", "g", "z">>
SUFFIX_R1_SINGLE == <<"_", "r", "1", "_", "s", "i", "n", "g", "l", "e", ".", "f", "q", ".", "b", "g", "z">>
SUFFIX_R2_SINGLE == <<"_", "r", "2", "_", "s", "i", "n", "g", "l", "e", ".", "f", "q", ".", "b", "g", "z">>
PREFIX_PAIRED == <<"N", "E", "A", "T", "-", "g", "e", "n", "e", "r", "a", "t", "e", "d", "_">>
PREFIX_SINGLETON == <<"N", "E", "A", "T", "_", "g", "e", "n", "e", "r", "a", "t", "e", "d", "_">>

CharsOf(s) == { s[k] : k \in 1..Len(s) }

\* str.removesuffix, str.removeprefix
removesuffix(s, suffix) ==
    IF Len(suffix) <= Len(s) /\ SubSeq(s, Len(s) - Len(suffix) + 1, Len(s)) = suffix
    THEN SubSeq(s, 1, Len(s) - Len(suffix)) ELSE s

removeprefix(s, prefix) ==
    IF Len(prefix) <= Len(s) /\ SubSeq(s, 1, Len(prefix)) = prefix
    THEN SubSeq(s, Len(prefix) + 1, Len(s)) ELSE s

\* str.strip(chars): every leading and trailing character that is in chars goes.
RECURSIVE lstrip(_, _)
lstrip(s, chars) ==
    IF s /= <<>> /\ s[1] \in chars THEN lstrip(Tail(s), chars) ELSE s

RECURSIVE rstrip(_, _)
rstrip(s, chars) ==
    IF s /= <<>> /\ s[Len(s)] \in chars THEN rstrip(SubSeq(s, 1, Len(s) - 1), chars) ELSE s

strip(s, chars) == rstrip(lstrip(s, chars), chars)

\* str.split('_')[0]
RECURSIVE split_first(_, _)
split_first(s, sep) ==
    IF s = <<>> \/ s[1] = sep THEN <<>> ELSE <<s[1]>> \o split_first(Tail(s), sep)

\* SeqIO.index(file, 'fastq'): the records of the file by their ids, in the
\* file's order; bool() of it says whether it has a record.
SeqIO_index(file) == file.records

IndexKeys(index) == [k \in 1..Len(index) |-> index[k].id]

HasKey(index, key) == \E k \in 1..Len(index) : index[k].id = key

Record(index, key) == index[CHOOSE k \in 1..Len(index) : index[k].id = key]

\* A dict as a function; d[k] = v.
DictSet(d, k, v) == [x \in (DOMAIN d) \cup {k} |-> IF x = k THEN v ELSE d[x]]

\* zip(a, b)
zip(a, b) == [k \in 1..Min(Len(a), Len(b)) |-> <<a[k], b[k]>>]

\* Lines 210-222: the paired files are indexed; acc is the dict and the keys so far.
RECURSIVE IndexPairedFiles(_, _)
IndexPairedFiles(files, acc) ==
    IF files = <<>> THEN acc
    ELSE LET file_pair == files[1].paired
             file1_index == SeqIO_index(file_pair[1])
             file2_index == SeqIO_index(file_pair[2])
             contig_name == removesuffix(file_pair[1].name, SUFFIX_R1_PAIRED)
         IN  IndexPairedFiles(Tail(files),
                IF file1_index /= <<>>
                THEN [dict |-> DictSet(acc.dict, contig_name, <<file1_index, file2_index>>),
                      keys |-> acc.keys \o zip(IndexKeys(file1_index), IndexKeys(file2_index))]
                ELSE acc)

\* Line 228, 231: the contig name taken from a singleton file's name.
SingletonContig(name, suffix) == strip(name, CharsOf(suffix))

\* Lines 224-246: the singleton files are indexed.
RECURSIVE IndexSingletonFiles(_, _)
IndexSingletonFiles(files, acc) ==
    IF files = <<>> THEN acc
    ELSE LET file_pair == files[1].single
             first == file_pair[1].name /= None
             second == file_pair[2].name /= None
             file_index == IF first THEN SeqIO_index(file_pair[1]) ELSE SeqIO_index(file_pair[2])
             contig_name == IF first THEN SingletonContig(file_pair[1].name, SUFFIX_R1_SINGLE)
                                     ELSE SingletonContig(file_pair[2].name, SUFFIX_R2_SINGLE)
         IN  IndexSingletonFiles(Tail(files),
                IF (first \/ second) /\ file_index /= <<>>
                THEN [dict |-> DictSet(acc.dict, contig_name, <<file_index, file_index>>),
                      keys |-> acc.keys \o IndexKeys(file_index)]
                ELSE acc)

\* Lines 199-246.
MergeIndex ==
    /\ pc = "merge_index"
    /\ LET paired == IndexPairedFiles(fastq_files, [dict |-> <<>>, keys |-> <<>>])
           single == IndexSingletonFiles(fastq_files, [dict |-> paired.dict, keys |-> <<>>])
       IN  /\ fastq_index_dict' = single.dict
           /\ paired_keys' = paired.keys
           /\ singleton_keys' = single.keys
    /\ pc' = "merge_shuffle"
    /\ UNCHANGED <<fastq_files, shuffled_paired_keys, shuffled_singleton_keys, merge_i, wrote_r2,
                   fq1, fq2, bamVars, ctorVars, mainVars>>

\* rand_num_gen.shuffle: any order of the list.
Shuffles(s) ==
    { [k \in 1..Len(s) |-> s[p[k]]] :
        p \in { q \in [1..Len(s) -> 1..Len(s)] : \A a, b \in 1..Len(s) : q[a] = q[b] => a = b } }

\* Lines 248-259: the keys are shuffled and the two outputs are opened.
MergeShuffle ==
    /\ pc = "merge_shuffle"
    /\ shuffled_paired_keys' \in Shuffles(paired_keys)
    /\ shuffled_singleton_keys' \in Shuffles(singleton_keys)
    /\ wrote_r2' = FALSE
    /\ fq1' = Some(<<>>)
    /\ fq2' = Some(<<>>)
    /\ merge_i' = 1
    /\ pc' = "merge_write"
    /\ UNCHANGED <<fastq_files, fastq_index_dict, paired_keys, singleton_keys, bamVars, ctorVars, mainVars>>

\* Line 264.
PairedChrom(current_key) == split_first(removeprefix(current_key[1], PREFIX_PAIRED), "_")

\* Lines 261-272: one iteration of the loop over the paired keys; a key that a
\* dict or an index does not hold raises KeyError.
MergeWritePaired ==
    /\ pc = "merge_write"
    /\ merge_i <= Len(shuffled_paired_keys)
    /\ LET current_key == shuffled_paired_keys[merge_i]
           chrom_name == PairedChrom(current_key)
           found1 == /\ chrom_name \in DOMAIN fastq_index_dict
                     /\ HasKey(fastq_index_dict[chrom_name][1], current_key[1])
           found2 == found1 /\ HasKey(fastq_index_dict[chrom_name][2], current_key[2])
       IN  /\ fq1' = IF found1
                     THEN Some(Append(Val(fq1), Record(fastq_index_dict[chrom_name][1], current_key[1])))
                     ELSE fq1
           /\ fq2' = IF found2
                     THEN Some(Append(Val(fq2), Record(fastq_index_dict[chrom_name][2], current_key[2])))
                     ELSE fq2
           /\ wrote_r2' = (wrote_r2 \/ found2)
           /\ merge_i' = IF found2 THEN merge_i + 1 ELSE merge_i
           /\ pc' = IF found2 THEN "merge_write" ELSE "merge_exception"
    /\ UNCHANGED <<fastq_files, fastq_index_dict, paired_keys, singleton_keys,
                   shuffled_paired_keys, shuffled_singleton_keys, bamVars, ctorVars, mainVars>>

\* Line 277: current_key is a string here, and current_key[0] its first character.
SingletonChrom(current_key) ==
    split_first(removeprefix(<<current_key[1]>>, PREFIX_SINGLETON), "_")

\* Lines 274-279: one iteration of the loop over the singleton keys.
MergeWriteSingleton ==
    /\ pc = "merge_write"
    /\ merge_i > Len(shuffled_paired_keys)
    /\ merge_i <= Len(shuffled_paired_keys) + Len(shuffled_singleton_keys)
    /\ LET current_key == shuffled_singleton_keys[merge_i - Len(shuffled_paired_keys)]
           chrom_name == SingletonChrom(current_key)
           found == /\ chrom_name \in DOMAIN fastq_index_dict
                    /\ HasKey(fastq_index_dict[chrom_name][1], <<current_key[1]>>)
       IN  /\ fq1' = IF found
                     THEN Some(Append(Val(fq1), Record(fastq_index_dict[chrom_name][1], <<current_key[1]>>)))
                     ELSE fq1
           /\ merge_i' = IF found THEN merge_i + 1 ELSE merge_i
           /\ pc' = IF found THEN "merge_write" ELSE "merge_exception"
    /\ UNCHANGED <<fastq_files, fastq_index_dict, paired_keys, singleton_keys,
                   shuffled_paired_keys, shuffled_singleton_keys, wrote_r2, fq2, bamVars, ctorVars, mainVars>>

\* Line 282: the second output is deleted.
UnlinkSecond_Never(wrote) == FALSE

UnlinkSecond(wrote) == ~wrote

\* Lines 281-284: the outputs are closed and the method returns.
MergeReturn ==
    /\ pc = "merge_write"
    /\ merge_i > Len(shuffled_paired_keys) + Len(shuffled_singleton_keys)
    /\ fq2' = IF UnlinkSecond(wrote_r2) THEN None ELSE fq2
    /\ pc' = "merge_returned"
    /\ UNCHANGED <<fastq_files, fastq_index_dict, paired_keys, singleton_keys,
                   shuffled_paired_keys, shuffled_singleton_keys, merge_i, wrote_r2, fq1,
                   bamVars, ctorVars, mainVars>>

\* The temporary files of one contig: the two paired files and the two singleton
\* files, a singleton file that was not made being None.
MaxPairs == 2
MaxSingles == 1

MergeContigs == { <<"X">>, <<"c", "h", "r", "1">> }

\* The id of a read of a contig.
DigitChar(k) == <<"0", "1", "2", "3", "4", "5", "6", "7", "8", "9">>[(k % 10) + 1]

ReadId(contig, k) == PREFIX_PAIRED \o contig \o <<"_", DigitChar(k)>>

TempRecord(id, contig, mate, k) == [id |-> id, contig |-> contig, mate |-> mate, k |-> k]

TempFile(name, records) == [name |-> name, records |-> records]

NoFile == TempFile(None, <<>>)

PairedFiles(contig, n) ==
    << TempFile(contig \o SUFFIX_R1_PAIRED,
                [k \in 1..n |-> TempRecord(ReadId(contig, k), contig, 1, k)]),
       TempFile(contig \o <<"_", "r", "2">> \o SubSeq(SUFFIX_R1_PAIRED, 4, Len(SUFFIX_R1_PAIRED)),
                [k \in 1..n |-> TempRecord(ReadId(contig, k), contig, 2, k)]) >>

\* The records of a singleton file: none, the first n singletons the simulator
\* writes, or one record with the one-character id.
SingletonRecords(contig, mate) ==
    { <<>> }
    \cup { [k \in 1..n |-> TempRecord(ReadId(contig, MaxPairs + k), contig, mate, MaxPairs + k)] :
             n \in 1..MaxSingles }
    \cup { << TempRecord(<<contig[1]>>, contig, mate, MaxPairs + 1) >> }

SingletonFiles(contig) ==
    { <<NoFile, NoFile>> }
    \cup { <<TempFile(contig \o SUFFIX_R1_SINGLE, r), NoFile>> : r \in SingletonRecords(contig, 1) }
    \cup { <<NoFile, TempFile(contig \o SUFFIX_R2_SINGLE, r)>> : r \in SingletonRecords(contig, 2) \ {<<>>} }
    \cup { <<TempFile(contig \o SUFFIX_R1_SINGLE, r), TempFile(contig \o SUFFIX_R2_SINGLE, s)>> :
             <<r, s>> \in (SingletonRecords(contig, 1) \ {<<>>}) \X (SingletonRecords(contig, 2) \ {<<>>}) }

CoupledFiles(contig) ==
    { [paired |-> PairedFiles(contig, n), single |-> s] :
        <<n, s>> \in (0..MaxPairs) \X SingletonFiles(contig) }

FastqFileLists ==
    UNION { { <<f>> : f \in CoupledFiles(c) } : c \in MergeContigs }
    \cup UNION { { <<f, h>> : <<f, h>> \in
                     { x \in CoupledFiles(c) \X CoupledFiles(d) :
                         Len(x[1].paired[1].records) + Len(x[2].paired[1].records) <= MaxPairs } } :
                 <<c, d>> \in { x \in MergeContigs \X MergeContigs : x[1] /= x[2] } }

InitMerge ==
    /\ pc = "merge_index"
    /\ fastq_files \in FastqFileLists
    /\ fastq_index_dict = <<>>
    /\ paired_keys = <<>>
    /\ singleton_keys = <<>>
    /\ shuffled_paired_keys = <<>>
    /\ shuffled_singleton_keys = <<>>
    /\ merge_i = 0
    /\ wrote_r2 = FALSE
    /\ fq1 = None
    /\ fq2 = None
    /\ BamIdle
    /\ CtorIdle
    /\ MainIdle

NextMerge ==
    \/ MergeIndex
    \/ MergeShuffle
    \/ MergeWritePaired
    \/ MergeWriteSingleton
    \/ MergeReturn

SpecMerge == InitMerge /\ [][NextMerge]_vars

(***************************************************************************)
(* genReads.py: main, from the command line to the loaded models           *)
(***************************************************************************)

\* The command line when nothing but the required arguments is given. A file
\* argument holds the content of the file.
DefaultArgs ==
    [ r        |-> <<>>,                \* -r: the reference, a list of contigs
      R        |-> 10,                  \* -R read length
      o        |-> "out",               \* -o output prefix
      c        |-> <<0, 1>>,            \* -c average coverage, a fraction <<n, d>>
      E        |-> -100,                \* -E average sequencing error rate, in hundredths
      p        |-> 2,                   \* -p ploidy
      M        |-> -100,                \* -M average mutation rate, in hundredths
      N        |-> -1,                  \* -N quality below which a base call becomes N
      t        |-> None,                \* -t: None or Some(the BED lines)
      to       |-> 0,                   \* -to off-target scalar, in halves
      v        |-> None,                \* -v: None or Some(the VCF data lines)
      pe       |-> None,                \* --pe mean std: None or <<mean, std>>
      pe_model |-> None,                \* --pe-model: None or Some(the pickled values and probabilities)
      job      |-> <<0, 0>>,            \* --job
      bam      |-> FALSE,               \* --bam
      vcf      |-> FALSE,               \* --vcf
      no_fastq |-> FALSE,               \* --no-fastq
      rng      |-> -1 ]                 \* --rng

LOW_COV_THRESH == 50
WINDOW_TARGET_SCALE == 100

REFERENCE == args.r
READLEN == args.R
OUT_PREFIX == args.o
COVERAGE == args.c
INPUT_BED == args.t
OFFTARGET_SCALAR2 == args.to
INPUT_VCF == args.v
SAVE_BAM == args.bam
SAVE_VCF == args.vcf
NO_FASTQ == args.no_fastq
PLOIDS == args.p
N_MAX_QUAL == args.N
FRAGMENT_STD == args.pe[2]
FRAGLEN_MODEL == args.pe_model

ONLY_VCF_IgnoringBam == NO_FASTQ /\ SAVE_VCF

ONLY_VCF == NO_FASTQ /\ SAVE_VCF /\ ~SAVE_BAM

NoOutputSelected == NO_FASTQ /\ ~SAVE_BAM /\ ~SAVE_VCF

PAIRED_END == args.pe /= None \/ FRAGLEN_MODEL /= None

PAIRED_END_ARTIFICIAL == args.pe /= None

MYJOB == IF args.job[1] = 0 THEN 1 ELSE args.job[1]
NJOBS == IF args.job[1] = 0 THEN 1 ELSE args.job[2]

\* Lines 163-164, 167-168: a negative rate stands for no rescaling.
MUT_RATE == IF args.M < 0 THEN None ELSE Some(args.M)
SE_RATE == IF args.E < 0 THEN None ELSE Some(args.E)

\* Lines 140-143: the seed handed to random.seed; drawn is what random.randint
\* returns when it is asked.
SeedIgnoringOption(given, drawn) == drawn

SeedFor(given, drawn) == IF given = -1 THEN drawn ELSE given

\* DiscreteDistribution(weights, values, degenerate_val): the object as built.
\* A weight is <<"lit", w, 1>> for the number w, or <<"exp", n, d>> for exp(-n/d).
DiscreteDistribution(weights, values, degenerate_val) ==
    [ weights |-> weights, values |-> values, degenerate |-> degenerate_val ]

\* mean_ind_of_weighted_list(weights): the (0-based) index at which the cumulative
\* weight first reaches half of the total.
mean_ind_of_weighted_list(w) ==
    LET total == SeqSum(w)
        Cum(k) == SeqSum(SubSeq(w, 1, k))
    IN  (CHOOSE k \in 1..Len(w) :
            /\ 2 * Cum(k) >= total
            /\ \A j \in 1..(k - 1) : 2 * Cum(j) < total) - 1

\* Lines 192-203: the empirical values above the read length, with their weights.
EmpiricalKept ==
    SelectSeq(Range(1, Len(Val(FRAGLEN_MODEL).vals) + 1),
              LAMBDA k : Val(FRAGLEN_MODEL).vals[k] > READLEN)
EmpiricalVals == [k \in 1..Len(EmpiricalKept) |-> Val(FRAGLEN_MODEL).vals[EmpiricalKept[k]]]
EmpiricalProb == [k \in 1..Len(EmpiricalKept) |-> Val(FRAGLEN_MODEL).probs[EmpiricalKept[k]]]

\* Lines 232-237: the values of mean +- 6 std above the read length, and the
\* Gaussian weight exp(-((n - mean)^2) / (2 std^2)) of each.
ArtificialVals(mean, std) ==
    SelectSeq(Range(mean - 6 * std, mean + 6 * std + 1), LAMBDA v : v > READLEN)

ArtificialProb(vals, mean, std) ==
    [k \in 1..Len(vals) |-> <<"exp", (vals[k] - mean) * (vals[k] - mean), 2 * std * std>>]

\* The seeds random.randint may return (1..99999999 in the code).
MaxSeedDraw == 2
SeedDraws == 1..MaxSeedDraw

\* What the second run knows of the first (see SpecTwice). run = 0: a single run.
\* In the second run, sync says that the random source has so far been asked
\* the questions of the first run, from the same seed.
SyncAfterSeed(seed) ==
    IF twice.run = 2 THEN [twice EXCEPT !.sync = (Some(seed) = twice.first[1].seed)] ELSE twice

\* Lines 99-155: the flags and the sequencing mode taken from the command line,
\* the exit when no output is selected, and the seeding of the random source.
Setup ==
    /\ pc = "start"
    /\ IF NoOutputSelected
       THEN /\ pc' = "exit"
            /\ UNCHANGED <<seedVars, FRAGMENT_SIZE>>
       ELSE /\ \E drawn \in SeedDraws :
                 /\ RNG_SEED' = Some(SeedFor(args.rng, drawn))
                 /\ twice' = SyncAfterSeed(SeedFor(args.rng, drawn))
            /\ FRAGMENT_SIZE' = IF args.pe = None THEN None ELSE Some(args.pe[1])
            /\ pc' = "models"
    /\ UNCHANGED <<args, mutVars, jobVars, FRAGLEN_DISTRIBUTION, contigVars, winVars, readVars, outVars,
                   histVars, progVars, ofwVars>>

\* Lines 192-203: the empirical fragment-length distribution; an empty list of
\* kept values has no element to index and ends the run with an exception.
LoadEmpiricalModel ==
    /\ pc = "models"
    /\ PAIRED_END /\ ~PAIRED_END_ARTIFICIAL
    /\ IF EmpiricalVals = <<>>
       THEN /\ pc' = "exception"
            /\ UNCHANGED modelVars
       ELSE /\ FRAGLEN_DISTRIBUTION' =
                    DiscreteDistribution([k \in 1..Len(EmpiricalProb) |-> <<"lit", EmpiricalProb[k], 1>>],
                                         EmpiricalVals, None)
            /\ FRAGMENT_SIZE' = Some(EmpiricalVals[mean_ind_of_weighted_list(EmpiricalProb) + 1])
            /\ pc' = "range_checks"
    /\ UNCHANGED <<args, mutVars, jobVars, seedVars, contigVars, winVars, readVars, outVars, histVars, progVars, ofwVars>>

\* Lines 227-238: the artificial fragment-length distribution.
BuildArtificialModel ==
    /\ pc = "models"
    /\ PAIRED_END /\ PAIRED_END_ARTIFICIAL
    /\ FRAGLEN_DISTRIBUTION' =
         IF FRAGMENT_STD = 0
         THEN DiscreteDistribution(<< <<"lit", 1, 1>> >>, <<Val(FRAGMENT_SIZE)>>, FRAGMENT_SIZE)
         ELSE LET vals == ArtificialVals(Val(FRAGMENT_SIZE), FRAGMENT_STD)
              IN  DiscreteDistribution(ArtificialProb(vals, Val(FRAGMENT_SIZE), FRAGMENT_STD), vals, None)
    /\ pc' = "range_checks"
    /\ UNCHANGED <<args, mutVars, jobVars, seedVars, FRAGMENT_SIZE, contigVars, winVars, readVars, outVars,
                   histVars, progVars, ofwVars>>

\* Single-end mode builds no distribution.
NoFragmentModel ==
    /\ pc = "models"
    /\ ~PAIRED_END
    /\ pc' = "range_checks"
    /\ UNCHANGED <<mainVars, ofwVars>>

\* Bounds of the fragment-length inputs of SpecFrag.
MaxFragReadLen == 4
MaxFragMean == 5
MaxFragStd == 1
MaxEmpiricalLen == 2

EmpiricalModels ==
    UNION { [vals : [1..n -> 1..MaxFragMean], probs : [1..n -> 1..2]] : n \in 1..MaxEmpiricalLen }

OneEmpiricalModel == [vals |-> <<1, MaxFragMean>>, probs |-> <<1, 1>>]

\* Every --pe pair with every read length; every empirical model alone, and one
\* beside each --pe pair (which then takes precedence).
FragArgs ==
    { [DefaultArgs EXCEPT !.R = rl, !.pe = p, !.pe_model = m] :
        rl \in 1..MaxFragReadLen,
        p \in (0..MaxFragMean) \X (0..MaxFragStd),
        m \in {None, Some(OneEmpiricalModel)} }
    \cup
    { [DefaultArgs EXCEPT !.R = rl, !.pe_model = m] :
        rl \in 1..MaxFragReadLen,
        m \in {None} \cup { Some(e) : e \in EmpiricalModels } }

SingleRun == [run |-> 0]

InitMain(argSet) ==
    /\ pc = "start"
    /\ args \in argSet
    /\ RNG_SEED = None /\ twice = SingleRun
    /\ MutIdle
    /\ myRegions = None /\ OFW = None
    /\ FRAGMENT_SIZE = None /\ FRAGLEN_DISTRIBUTION = None
    /\ RI = 0 /\ validVariants = <<>> /\ nSkipped = <<0, 0, 0>> /\ vIdx = 0
    /\ ALL_VARIANTS_OUT = {} /\ sequences = None
    /\ region_i = 0 /\ bpd = 0 /\ start = 0 /\ end = 0 /\ next_start = 0 /\ next_end = 0
    /\ isLastTime = FALSE /\ vindFromPrev = 1 /\ varsFromPrevOverlap = <<>>
    /\ varsInWindow = <<>> /\ coverage_sum2 = 0 /\ skip_this_window = FALSE
    /\ all_inserted_variants = <<>> /\ readsLeft = 0 /\ readNameCount = 1
    /\ unmapped_records = <<>>
    /\ fastq = <<>> /\ bam = <<>> /\ vcf = <<>>
    /\ currentProgress = 0 /\ currentPercent = 0 /\ havePrinted100 = FALSE /\ printed = <<>>
    /\ gathered = <<>> /\ regionSkips = 0 /\ windows = <<>> /\ sampled = <<>>
    /\ OfwIdle

InitFrag == InitMain(FragArgs)
NextFrag == Setup \/ LoadEmpiricalModel \/ BuildArtificialModel \/ NoFragmentModel
SpecFrag == InitFrag /\ [][NextFrag]_vars

(***************************************************************************)
(* genReads.py: main, the mutation-rate BED file                           *)
(***************************************************************************)

\* A line of the file: chromosome, two positions and the metadata, a list of
\* fields that ';' separates. A field is MUT_RATE=<rate> or something else; the
\* rate is kept in thousandths.
MutField(rate) == [key |-> "MUT_RATE", value |-> rate]
OtherField == [key |-> "OTHER", value |-> 0]

\* Line 312: re.findall(r"MUT_RATE=.*?(?=;)", metaData + ';'), the fields with
\* the token, in the line's order.
mutStr(metaData) == SelectSeq(metaData, LAMBDA f : f.key = "MUT_RATE")

\* Line 314: the line has the token and its region is longer than 1.
MutLineCounts(line) == Len(mutStr(line.metaData)) > 0 /\ (line.pos2 - line.pos1) > 1

\* Line 316: the rate of the first token, bounded by 0 and 0.3.
mutRate(line) == Max(0, Min(mutStr(line.metaData)[1].value, 300))

\* A dict with the list of key k set to v.
WithKey(d, k, v) == [c \in (DOMAIN d) \cup {k} |-> IF c = k THEN v ELSE d[c]]

\* Lines 309-320: one line of the file. For a line that counts, the contig's
\* lists are made when they are missing (317-318), its boundaries are added
\* (319), and line 320 calls extend on the dict mutRateValues itself, which has
\* no such method: AttributeError.
ParseMutLine ==
    /\ pc = "mutbed"
    /\ MUT_BED /= None
    /\ mut_i <= Len(Val(MUT_BED))
    /\ LET line == Val(MUT_BED)[mut_i]
           myChr == line.myChr
           known == myChr \in DOMAIN mutRateRegions
       IN  IF MutLineCounts(line)
           THEN /\ mutRateRegions' =
                      WithKey(mutRateRegions, myChr,
                              (IF known THEN mutRateRegions[myChr] ELSE << -1 >>)
                                 \o << line.pos1, line.pos2 >>)
                /\ mutRateValues' =
                      IF known THEN mutRateValues ELSE WithKey(mutRateValues, myChr, << 0 >>)
                /\ mut_i' = mut_i
                /\ pc' = "mutbed_exception"
           ELSE /\ mut_i' = mut_i + 1
                /\ pc' = "mutbed"
                /\ UNCHANGED <<mutRateRegions, mutRateValues>>
    /\ UNCHANGED <<MUT_BED, args, jobVars, seedVars, modelVars, contigVars, winVars, progVars,
                   readVars, outVars, histVars, ofwVars>>

\* Lines 307-308, 323: no file was given, or its lines are exhausted.
MutBedParsed ==
    /\ pc = "mutbed"
    /\ IF MUT_BED = None THEN TRUE ELSE mut_i > Len(Val(MUT_BED))
    /\ pc' = "mutbed_done"
    /\ UNCHANGED <<mutVars, args, jobVars, seedVars, modelVars, contigVars, winVars, progVars,
                   readVars, outVars, histVars, ofwVars>>

\* The files tried: at most MaxMutLines lines, over two contigs, regions of
\* length 1 and 10, and metadata without the token, with a rate inside the
\* bounds, above them and below them, and with the token after another field.
MaxMutLines == 2

MutMetaData ==
    { << OtherField >>, << MutField(50) >>, << MutField(500) >>, << MutField(-100) >>,
      << OtherField, MutField(50) >> }

MutLines ==
    { [myChr |-> c, pos1 |-> p[1], pos2 |-> p[2], metaData |-> m] :
        c \in { "chr1", "chr2" }, p \in { <<5, 6>>, <<10, 20>> }, m \in MutMetaData }

RECURSIVE MutFiles(_)
MutFiles(n) ==
    IF n = 0 THEN { <<>> }
    ELSE MutFiles(n - 1) \cup { Append(f, l) : f \in { g \in MutFiles(n - 1) : Len(g) = n - 1 },
                                               l \in MutLines }

InitMutBed ==
    /\ pc = "mutbed"
    /\ MUT_BED \in { None } \cup { Some(f) : f \in MutFiles(MaxMutLines) }
    /\ mut_i = 1
    /\ mutRateRegions = <<>>
    /\ mutRateValues = <<>>
    /\ args = None /\ RNG_SEED = None /\ twice = None
    /\ myRegions = None /\ OFW = None
    /\ FRAGMENT_SIZE = None /\ FRAGLEN_DISTRIBUTION = None
    /\ RI = 0 /\ validVariants = <<>> /\ nSkipped = <<0, 0, 0>> /\ vIdx = 0
    /\ ALL_VARIANTS_OUT = {} /\ sequences = None
    /\ region_i = 0 /\ bpd = 0 /\ start = 0 /\ end = 0 /\ next_start = 0 /\ next_end = 0
    /\ isLastTime = FALSE /\ vindFromPrev = 1 /\ varsFromPrevOverlap = <<>>
    /\ varsInWindow = <<>> /\ coverage_sum2 = 0 /\ skip_this_window = FALSE
    /\ currentProgress = 0 /\ currentPercent = 0 /\ havePrinted100 = FALSE /\ printed = <<>>
    /\ all_inserted_variants = <<>> /\ readsLeft = 0 /\ readNameCount = 1
    /\ unmapped_records = <<>>
    /\ fastq = <<>> /\ bam = <<>> /\ vcf = <<>>
    /\ gathered = <<>> /\ regionSkips = 0 /\ windows = <<>> /\ sampled = <<>>
    /\ OfwIdle

NextMutBed == ParseMutLine \/ MutBedParsed

SpecMutBed == InitMutBed /\ [][NextMutBed]_vars

(***************************************************************************)
(* genReads.py: main, the range checks, the inputs and the contig loop     *)
(***************************************************************************)

\* is_in_range(value, lower, upper): the check that ends the run when it fails.
is_in_range(value, lower, upper) == lower <= value /\ value <= upper

\* Lines 248, 250: the rate is given to is_in_range.
RateChecked(rate) == rate /= Some(-100) /\ rate /= None

\* Lines 244-257: every is_in_range call that is made passes. Rates are in
\* hundredths and the off-target scalar in halves.
RangesOk_PloidyUnchecked ==
    /\ is_in_range(READLEN, 10, 1000000)
    /\ is_in_range(COVERAGE[1], 0, 1000000 * COVERAGE[2])
    /\ is_in_range(OFFTARGET_SCALAR2, 0, 2)
    /\ RateChecked(MUT_RATE) => is_in_range(Val(MUT_RATE), 0, 30)
    /\ RateChecked(SE_RATE) => is_in_range(Val(SE_RATE), 0, 30)
    /\ NJOBS /= 1 =>
          /\ is_in_range(NJOBS, 1, 1000)
          /\ is_in_range(MYJOB, 1, 1000)
          /\ is_in_range(MYJOB, 1, NJOBS)
    /\ N_MAX_QUAL /= -1 => is_in_range(N_MAX_QUAL, 1, 40)

RangesOk ==
    /\ is_in_range(READLEN, 10, 1000000)
    /\ is_in_range(COVERAGE[1], 0, 1000000 * COVERAGE[2])
    /\ is_in_range(PLOIDS, 1, 100)
    /\ is_in_range(OFFTARGET_SCALAR2, 0, 2)
    /\ RateChecked(MUT_RATE) => is_in_range(Val(MUT_RATE), 0, 30)
    /\ RateChecked(SE_RATE) => is_in_range(Val(SE_RATE), 0, 30)
    /\ NJOBS /= 1 =>
          /\ is_in_range(NJOBS, 1, 1000)
          /\ is_in_range(MYJOB, 1, 1000)
          /\ is_in_range(MYJOB, 1, NJOBS)
    /\ N_MAX_QUAL /= -1 => is_in_range(N_MAX_QUAL, 1, 40)

\* Lines 244-257.
RangeChecks ==
    /\ pc = "range_checks"
    /\ pc' = IF RangesOk THEN "inputs" ELSE "exit"
    /\ UNCHANGED <<mainVars, ofwVars>>

\* A reference sequence is held run-length encoded: a list of <<base, count>>.
RECURSIVE RefLen(_)
RefLen(rle) == IF rle = <<>> THEN 0 ELSE rle[1][2] + RefLen(Tail(rle))

\* The base at 0-based index k, 0 <= k < RefLen(rle).
RECURSIVE RefAt(_, _)
RefAt(rle, k) == IF k < rle[1][2] THEN rle[1][1] ELSE RefAt(Tail(rle), k - rle[1][2])

\* Python's seq[a:b], as the list of its characters.
PySlice(rle, a, b) ==
    LET L == RefLen(rle)
        Norm(x) == IF x < 0 THEN Max(x + L, 0) ELSE Min(x, L)
        lo == Norm(a)
        hi == Norm(b)
    IN  [k \in 1..(IF hi > lo THEN hi - lo ELSE 0) |-> RefAt(rle, lo + k - 1)]

\* Line 265: index_ref, the contigs of the reference.
index_ref == REFERENCE

\* get_all_ref_regions: the non-N regions of every contig, flattened in the
\* reference's order to (contig, start, end).
RECURSIVE RegionsOf(_)
RegionsOf(contigs) ==
    IF contigs = <<>> THEN <<>>
    ELSE [k \in 1..Len(contigs[1].non_N) |->
             <<contigs[1].name, contigs[1].non_N[k][1], contigs[1].non_N[k][2]>>]
         \o RegionsOf(Tail(contigs))

parallelRegionList == RegionsOf(index_ref)

\* partition_ref_regions: the flattened regions are cut into NJOBS consecutive
\* stripes and the job owns one of them, the first job from the first region
\* and the last job to the last; where the cuts fall is left open here.
partition_ref_regions(all, myjob, njobs) ==
    { { all[k] : k \in a..b } :
        <<a, b>> \in { x \in (1..(Len(all) + 1)) \X (0..Len(all)) :
                         /\ x[2] >= x[1] - 1
                         /\ myjob = 1 => x[1] = 1
                         /\ myjob = njobs => x[2] = Len(all) } }

\* Lines 338-340: the contigs this job does not touch are deleted.
myRefs == { r[1] : r \in Val(myRegions) }

refIndex ==
    IF myRegions = None THEN index_ref
    ELSE SelectSeq(index_ref, LAMBDA c : c.name \in myRefs)

refName == refIndex[RI].name
refSequence == refIndex[RI].seq

\* Lines 362-368: the non-N regions read_ref returns, without those of other jobs.
N_regions_non_N ==
    IF myRegions = None THEN refIndex[RI].non_N
    ELSE SelectSeq(refIndex[RI].non_N, LAMBDA n : <<refName, n[1], n[2]>> \in Val(myRegions))

\* Line 342.
corrected_nJobs == IF NJOBS > 1 THEN Min(NJOBS, Len(parallelRegionList)) ELSE 1

\* The order of Python on the variant tuples, of list.sort() and sorted(): by
\* position, then by the alleles (strings by their characters), then by the
\* metadata.
CharRank(c) ==
    CASE c = "A" -> 65 [] c = "C" -> 67 [] c = "G" -> 71 [] c = "N" -> 78
      [] c = "R" -> 82 [] c = "T" -> 84 [] OTHER -> 127

RECURSIVE StrBefore(_, _)
StrBefore(a, b) ==
    IF a = <<>> THEN b /= <<>>
    ELSE IF b = <<>> THEN FALSE
    ELSE IF a[1] /= b[1] THEN CharRank(a[1]) < CharRank(b[1])
    ELSE StrBefore(Tail(a), Tail(b))

RECURSIVE AltsBefore(_, _)
AltsBefore(a, b) ==
    IF a = <<>> THEN b /= <<>>
    ELSE IF b = <<>> THEN FALSE
    ELSE IF a[1] /= b[1] THEN StrBefore(a[1], b[1])
    ELSE AltsBefore(Tail(a), Tail(b))

VariantBefore(a, b) ==
    IF a.pos /= b.pos THEN a.pos < b.pos
    ELSE IF a.ref /= b.ref THEN StrBefore(a.ref, b.ref)
    ELSE IF a.alts /= b.alts THEN AltsBefore(a.alts, b.alts)
    ELSE a.info < b.info

\* The variants of S from the last to the first.
RECURSIVE SortedVariants_Descending(_)
SortedVariants_Descending(S) ==
    IF S = {} THEN <<>>
    ELSE LET m == CHOOSE x \in S : \A y \in S \ {x} : VariantBefore(y, x)
         IN  <<m>> \o SortedVariants_Descending(S \ {m})

RECURSIVE SortedVariants(_)
SortedVariants(S) ==
    IF S = {} THEN <<>>
    ELSE LET m == CHOOSE x \in S : \A y \in S \ {x} : VariantBefore(x, y)
         IN  <<m>> \o SortedVariants(S \ {m})

\* Lines 273-277: parseVCF's variants of a contig, sorted (no two lines of a file are
\* alike); a VCF line is
\* (chrom, pos, ref, alts, info) and becomes the tuple (pos, ref, alts, info).
inputVariants(chrom) ==
    IF INPUT_VCF = None THEN <<>>
    ELSE LET lines == SelectSeq(Val(INPUT_VCF), LAMBDA l : l.chrom = chrom)
         IN  SortedVariants({ [pos |-> lines[k].pos, ref |-> lines[k].ref,
                               alts |-> lines[k].alts, info |-> lines[k].info] :
                              k \in 1..Len(lines) })

\* Lines 280-288: the BED intervals of a contig, [-1, pos1, pos2, ...]; None when
\* the BED file does not name the contig.
inputRegions(chrom) ==
    LET lines == SelectSeq(Val(INPUT_BED), LAMBDA l : l.chrom = chrom)
        RECURSIVE Flat(_)
        Flat(s) == IF s = <<>> THEN <<>> ELSE <<s[1].pos1, s[1].pos2>> \o Flat(Tail(s))
    IN  IF lines = <<>> THEN None ELSE Some(<<-1>> \o Flat(lines))

\* Lines 263-357: the inputs are parsed, the regions of the job are taken and
\* the OutputFileWriter is built; a job without a region ends the run.
ProcessInputs ==
    /\ pc = "inputs"
    /\ \E regions \in IF NJOBS > 1 THEN { Some(r) : r \in partition_ref_regions(parallelRegionList, MYJOB, NJOBS) }
                                   ELSE { None } :
         /\ myRegions' = regions
         /\ IF NJOBS > 1 /\ Val(regions) = {}
            THEN /\ pc' = "exit"
                 /\ UNCHANGED <<OFW, RI, readNameCount, unmapped_records, outVars>>
            ELSE /\ OFW' = Some([paired |-> PAIRED_END, job_tuple |-> <<MYJOB, corrected_nJobs>>,
                                 no_fastq |-> NO_FASTQ])
                 /\ RI' = 1
                 /\ readNameCount' = 1
                 /\ unmapped_records' = <<>>
                 /\ fastq' = <<>> /\ bam' = <<>> /\ vcf' = <<>>
                 /\ pc' = "contig"
    /\ UNCHANGED <<args, mutVars, seedVars, modelVars, validVariants, nSkipped, vIdx, ALL_VARIANTS_OUT,
                   sequences, winVars, all_inserted_variants, readsLeft, histVars, progVars, ofwVars>>

\* Lines 359-381: the next contig is read.
BeginContig ==
    /\ pc = "contig"
    /\ RI <= Len(refIndex)
    /\ validVariants' = <<>>
    /\ nSkipped' = <<0, 0, 0>>
    /\ vIdx' = 1
    /\ currentProgress' = 0
    /\ currentPercent' = 0
    /\ havePrinted100' = FALSE
    /\ printed' = <<>>
    /\ pc' = "validate"
    /\ UNCHANGED <<args, mutVars, jobVars, seedVars, modelVars, RI, ALL_VARIANTS_OUT, sequences, winVars,
                   readVars, outVars, histVars, ofwVars>>

ALLOWED_NUCL == {"A", "C", "G", "T"}

\* Line 386: some character of some alt allele is not an allowed nucleotide.
anyBadChr(n) ==
    \E a \in 1..Len(n.alts) : \E k \in 1..Len(n.alts[a]) : n.alts[a][k] \notin ALLOWED_NUCL

\* Lines 384-385: the reference bases the variant claims to replace.
rseq(n) == PySlice(refSequence, n.pos - 1, n.pos + Len(n.ref) - 1)

\* Lines 387-398: which rejection counter the variant increments (1, 2 or 3),
\* or 0 when it is valid.
Verdict_NBeforeMismatch(n) ==
    IF \E k \in 1..Len(rseq(n)) : rseq(n)[k] = "N" THEN 2
    ELSE IF rseq(n) /= n.ref THEN 1
    ELSE IF anyBadChr(n) THEN 3
    ELSE 0

Verdict_NoMismatchTest(n) ==
    IF \E k \in 1..Len(rseq(n)) : rseq(n)[k] = "N" THEN 2
    ELSE IF anyBadChr(n) THEN 3
    ELSE 0

Verdict(n) ==
    IF rseq(n) /= n.ref THEN 1
    ELSE IF \E k \in 1..Len(rseq(n)) : rseq(n)[k] = "N" THEN 2
    ELSE IF anyBadChr(n) THEN 3
    ELSE 0

\* Lines 383-398: one iteration of the validation loop.
ValidateVariant ==
    /\ pc = "validate"
    /\ vIdx <= Len(inputVariants(refName))
    /\ LET n == inputVariants(refName)[vIdx]
           verdict == Verdict(n)
       IN  /\ nSkipped' = IF verdict = 0 THEN nSkipped
                          ELSE [nSkipped EXCEPT ![verdict] = @ + 1]
           /\ validVariants' = IF verdict = 0 THEN Append(validVariants, n) ELSE validVariants
    /\ vIdx' = vIdx + 1
    /\ UNCHANGED <<pc, args, mutVars, jobVars, seedVars, modelVars, RI, ALL_VARIANTS_OUT, sequences, winVars,
                   readVars, outVars, histVars, progVars, ofwVars>>

\* Lines 416-426: the window sizes of the sequencing mode.
overlap == IF PAIRED_END THEN Val(FRAGMENT_SIZE) ELSE READLEN
targSize == WINDOW_TARGET_SCALE * overlap
overlap_minWindowSize ==
    IF PAIRED_END THEN SeqMax(FRAGLEN_DISTRIBUTION.values) + 10 ELSE READLEN + 10

\* Lines 399-433: validation is over; the contig's sampling begins. max() of an
\* empty list of fragment lengths is an exception.
BeginSampling ==
    /\ pc = "validate"
    /\ vIdx > Len(inputVariants(refName))
    /\ ALL_VARIANTS_OUT' = {}
    /\ sequences' = None
    /\ region_i' = 1
    /\ gathered' = [j \in 1..Len(validVariants) |-> 0]
    /\ pc' = IF PAIRED_END /\ FRAGLEN_DISTRIBUTION.values = <<>> THEN "exception" ELSE "region"
    /\ UNCHANGED <<args, mutVars, jobVars, seedVars, modelVars, RI, validVariants, nSkipped, vIdx,
                   bpd, start, end, next_start, next_end, isLastTime, vindFromPrev,
                   varsFromPrevOverlap, varsInWindow, coverage_sum2, skip_this_window,
                   readVars, outVars, regionSkips, windows, sampled, progVars, ofwVars>>

(***************************************************************************)
(* genReads.py: main, the tiling of a non-N region into windows            *)
(***************************************************************************)

pi == N_regions_non_N[region_i][1]
pf == N_regions_non_N[region_i][2]

\* Lines 437-438.
nTargWindows == Max(1, (pf - pi) \div targSize)
RegionBpd == (pf - pi) \div nTargWindows

\* Lines 435-455: the next region; a region too small for a window is passed
\* over. A zero window size (a zero mean fragment length) divides by zero.
LoopRegion ==
    /\ pc = "region"
    /\ region_i <= Len(N_regions_non_N)
    /\ IF targSize = 0
       THEN /\ pc' = "exception"
            /\ UNCHANGED <<winVars, regionSkips, havePrinted100>>
       ELSE IF nTargWindows = 1 /\ (pf - pi) < overlap_minWindowSize
       THEN /\ region_i' = region_i + 1
            /\ pc' = "region"
            /\ UNCHANGED <<bpd, start, end, next_start, next_end, isLastTime, vindFromPrev,
                           varsFromPrevOverlap, varsInWindow, coverage_sum2, skip_this_window,
                           regionSkips, havePrinted100>>
       ELSE /\ bpd' = RegionBpd
            /\ start' = pi
            /\ end' = Min(pi + RegionBpd, pf)
            /\ varsFromPrevOverlap' = <<>>
            /\ vindFromPrev' = 1
            /\ isLastTime' = FALSE
            /\ regionSkips' = 0
            /\ havePrinted100' = FALSE
            /\ pc' = "window"
            /\ UNCHANGED <<region_i, next_start, next_end, varsInWindow, coverage_sum2,
                           skip_this_window>>
    /\ UNCHANGED <<args, mutVars, jobVars, seedVars, modelVars, contigVars, readVars, outVars, gathered, windows,
                   sampled, currentProgress, currentPercent, printed, ofwVars>>

\* Line 465: the tuple staged for an input variant, VCF to array coordinates.
Staged_SamePosition(n) == n

Staged(n) == [n EXCEPT !.pos = n.pos - 1]

\* Line 464: the variant's position is inside the window.
InWindow(vPos, s, e) == vPos > s /\ vPos < e

\* Lines 460-470: the scan of validVariants from index j on; the indices
\* gathered, and the index the next window's scan will start from.
RECURSIVE GatherLoop(_, _, _, _)
GatherLoop(j, acc, vind, updated) ==
    IF j > Len(validVariants) THEN [idx |-> acc, vind |-> vind]
    ELSE LET vPos == validVariants[j].pos
             acc2 == IF InWindow(vPos, start, end) THEN Append(acc, j) ELSE acc
             upd  == vPos >= end - overlap - 1 /\ ~updated
             vind2 == IF upd THEN j ELSE vind
         IN  IF vPos >= end THEN [idx |-> acc2, vind |-> vind2]
             ELSE GatherLoop(j + 1, acc2, vind2, updated \/ upd)

\* Lines 475-477: the buffer a variant needs, and its structural-variant entry.
bufferNeeded(n) ==
    SeqMax([a \in 1..Len(n.alts) |-> Max(Abs(Len(n.ref) - Len(n.alts[a])), 1)])

structuralVars(vs) == [k \in 1..Len(vs) |-> <<vs[k].pos - 1, bufferNeeded(vs[k])>>]

\* Line 487.
Delta(e, sv) == (e - 1) - (sv[1] + sv[2]) - 2 - overlap

\* Lines 480-494: the window's end, moved past the first variant too close to
\* it, until none is.
ExtendedEnd_NotMoved(e, svs) == e

RECURSIVE ExtendedEnd(_, _)
ExtendedEnd(e, svs) ==
    LET short == { k \in 1..Len(svs) : Delta(e, svs[k]) < 0 }
    IN  IF short = {} THEN e
        ELSE LET k == CHOOSE x \in short : \A y \in short : x <= y
             IN  ExtendedEnd(e - Delta(e, svs[k]), svs)

\* Line 495: where the next window starts, given the end of this one.
NextStart_AtEnd(e) == e

NextStart_Stuck(e) == start

NextStart(e) == e - overlap

\* bisect.bisect(a, x) on a sorted list: the number of elements <= x.
bisect(a, x) == Cardinality({ k \in 1..Len(a) : a[k] <= x })

\* Lines 515-528: twice the sum of the window's coverage weights.
CoverageSum2(s, e) ==
    IF INPUT_BED = None THEN 2 * Max(e - s, 0)
    ELSE IF inputRegions(refName) = None THEN OFFTARGET_SCALAR2 * Max(e - s, 0)
    ELSE LET regs == Val(inputRegions(refName))
             on == Cardinality({ j \in s..(e - 1) : bisect(regs, j) % 2 = 0 })
         IN  2 * on + OFFTARGET_SCALAR2 * (Max(e - s, 0) - on)

\* Lines 531-537.
SkipDecision_SizeOnly(sum2, s, e) == (e - s) < overlap_minWindowSize

SkipDecision(sum2, s, e) ==
    sum2 < 2 * LOW_COV_THRESH \/ (e - s) < overlap_minWindowSize

\* Line 371: the bases of the contig's regions.
total_bp_span == SeqSum([i \in 1..Len(N_regions_non_N) |-> N_regions_non_N[i][2] - N_regions_non_N[i][1]])

\* Line 504: int((currentProgress * 100) / float(total_bp_span)).
newPercent(progress) == (progress * 100) \div total_bp_span

\* Lines 505-508: what the window loop prints for a percentage that is new.
Prints(new) == new <= 99 \/ (new = 100 /\ ~havePrinted100)

\* Lines 457-537: the head of one iteration of the window loop.
WindowHead ==
    /\ pc = "window"
    /\ LET g == GatherLoop(vindFromPrev, <<>>, vindFromPrev, FALSE)
           vs == [k \in 1..Len(g.idx) |-> Staged(validVariants[g.idx[k]])]
           e1 == ExtendedEnd(end, structuralVars(vs))
           ns == NextStart(e1)
           ne == Min(ns + bpd, pf)
           last == ne - ns < bpd
           e2 == IF last THEN ne ELSE e1
       IN  /\ varsInWindow' = vs
           /\ vindFromPrev' = g.vind
           /\ gathered' = [j \in 1..Len(gathered) |->
                              gathered[j] + Cardinality({ k \in 1..Len(g.idx) : g.idx[k] = j })]
           /\ end' = e2
           /\ next_start' = ns
           /\ next_end' = ne
           /\ isLastTime' = (isLastTime \/ last)
           /\ coverage_sum2' = CoverageSum2(start, e2)
           /\ skip_this_window' = SkipDecision(CoverageSum2(start, e2), start, e2)
           /\ currentProgress' = currentProgress + (e2 - start)
           /\ LET new == newPercent(currentProgress + (e2 - start))
              IN  IF new > currentPercent
                  THEN /\ printed' = IF Prints(new) THEN Append(printed, new) ELSE printed
                       /\ currentPercent' = new
                       /\ havePrinted100' = (havePrinted100 \/ new = 100)
                  ELSE UNCHANGED <<printed, currentPercent, havePrinted100>>
    /\ pc' = "window_body"
    /\ UNCHANGED <<args, mutVars, jobVars, seedVars, modelVars, contigVars, region_i, bpd, start,
                   varsFromPrevOverlap, readVars, outVars, regionSkips, windows, sampled,
                   ofwVars>>

\* Lines 541-546 and 695-700: the indices of the next window, or the end of the
\* region's loop.
Advance ==
    /\ start' = next_start
    /\ end' = next_end
    /\ IF isLastTime
       THEN /\ region_i' = region_i + 1
            /\ pc' = "region"
            /\ UNCHANGED isLastTime
       ELSE /\ isLastTime' = (next_end >= pf)
            /\ pc' = "window"
            /\ UNCHANGED region_i

\* Lines 539-548: the window is skipped.
SkipWindow ==
    /\ pc = "window_body"
    /\ skip_this_window
    /\ Advance
    /\ varsFromPrevOverlap' = IF isLastTime THEN varsFromPrevOverlap ELSE <<>>
    /\ regionSkips' = regionSkips + 1
    /\ windows' = Append(windows, [contig |-> RI, region |-> region_i, start |-> start, end |-> end,
                                  skipped |-> TRUE, sum2 |-> coverage_sum2,
                                  carried |-> varsFromPrevOverlap, realized |-> <<>>])
    /\ UNCHANGED <<args, mutVars, jobVars, seedVars, modelVars, contigVars, bpd, next_start, next_end,
                   vindFromPrev, varsInWindow, coverage_sum2, skip_this_window, readVars,
                   outVars, gathered, sampled, progVars, ofwVars>>

(***************************************************************************)
(* genReads.py: main, the model engine's calls, the reads and the output   *)
(***************************************************************************)

\* The random source. Every answer of the model engine is a draw; call names
\* the question. In a single run, and in the first of two, any answer may come.
\* In the second of two runs the source, seeded as in the first and asked
\* the same questions so far, gives the answer it gave then.
Replays(call) ==
    /\ twice.run = 2
    /\ twice.sync
    /\ twice.pos <= Len(twice.first[1].tape)
    /\ twice.first[1].tape[twice.pos].call = call

MayAnswer(call, answer) == Replays(call) => answer = twice.first[1].tape[twice.pos].answer

Asked(call, answer) ==
    CASE twice.run = 0 -> twice
      [] twice.run = 1 -> [twice EXCEPT !.tape = Append(@, [call |-> call, answer |-> answer])]
      [] twice.run = 2 -> [twice EXCEPT !.pos = @ + 1, !.sync = Replays(call)]

\* Bounds of the model engine's answers: the random variants random_mutations
\* may add to the staged ones of a window.
MaxRandomPerWindow == 1

\* A random variant: a substitution at position p, with no metadata of the input.
RandomVariant(p) == [pos |-> p, ref |-> <<"A">>, alts |-> << <<"C">> >>, info |-> 0]

\* Where the model places a random variant: before the overlap, on the first
\* position that is carried forward, and on the window's last position.
RandomPositions == {end - overlap - 2, end - overlap - 1, end - 1}

RandomLists ==
    {<<>>} \cup (IF MaxRandomPerWindow >= 1 THEN { <<RandomVariant(p)>> : p \in RandomPositions } ELSE {})
           \cup (IF MaxRandomPerWindow >= 2
                 THEN { <<RandomVariant(pq[1]), RandomVariant(pq[2])>> :
                          pq \in { x \in RandomPositions \X RandomPositions : x[1] < x[2] } }
                 ELSE {})

\* The subsequences of a list, in the list's order.
SubSeqs(s) ==
    { SelectSeq(s, LAMBDA x : x \in keep) : keep \in SUBSET { s[k] : k \in 1..Len(s) } }

\* random_mutations(): the staged variants that were realized, in their order,
\* and then the random ones.
RandomMutationAnswers(staged) ==
    { kept \o rnd : kept \in SubSeqs(staged), rnd \in RandomLists }

\* init_coverage(): the average coverage of the window, a fraction <<n, d>>.
CoverageAverages == { <<0, 1>>, <<1, 1>> }

\* Lines 581-588: the number of reads to sample from the window.
ReadsToSample(avg) ==
    LET num == (end - start) * COVERAGE[1] * avg[1]
        den == COVERAGE[2] * avg[2] * (IF PAIRED_END THEN 2 * READLEN ELSE READLEN)
        n == num \div den + 1
    IN  IF n = 1 /\ coverage_sum2 < 2 * LOW_COV_THRESH THEN 0 ELSE n

\* Lines 571-574: the realized variants kept for the next window.
Carried(vs) == SelectSeq(vs, LAMBDA n : n.pos >= end - overlap - 1)

\* Lines 550-588: the engine is built or re-armed for the window, the variants
\* are inserted and realized, and the reads to sample are counted.
EngineStep ==
    /\ pc = "window_body"
    /\ ~skip_this_window
    /\ LET staged == varsFromPrevOverlap \o varsInWindow
           call == [op |-> "random_mutations", contig |-> RI, start |-> start, end |-> end,
                    staged |-> staged]
       IN  \E realized \in RandomMutationAnswers(staged), avg \in CoverageAverages :
             LET answer == [variants |-> realized,
                            reads |-> IF ONLY_VCF THEN 0 ELSE ReadsToSample(avg)]
             IN  /\ MayAnswer(call, answer)
                 /\ twice' = Asked(call, answer)
                 /\ sequences' = Some([start |-> start, end |-> end, staged |-> staged])
                 /\ all_inserted_variants' = realized
                 /\ varsFromPrevOverlap' = Carried(realized)
                 /\ readsLeft' = answer.reads
                 /\ windows' = Append(windows,
                                      [contig |-> RI, region |-> region_i, start |-> start,
                                       end |-> end, skipped |-> FALSE, sum2 |-> coverage_sum2,
                                       carried |-> varsFromPrevOverlap, realized |-> realized])
    /\ pc' = "sample"
    /\ UNCHANGED <<args, mutVars, jobVars, RNG_SEED, modelVars, RI, validVariants, nSkipped, vIdx,
                   ALL_VARIANTS_OUT, region_i, bpd, start, end, next_start, next_end,
                   isLastTime, vindFromPrev, varsInWindow, coverage_sum2, skip_this_window,
                   readNameCount, unmapped_records, outVars, gathered, regionSkips, sampled,
                   progVars, ofwVars>>

\* sample_read(): None when no position was found; else one tuple per mate,
\* whose mapping position (relative to the window) may be None.
MateAnswers == { [pos |-> None], [pos |-> Some(0)] }

SampleReadAnswers ==
    {None} \cup
    (IF PAIRED_END THEN { Some(<<m1, m2>>) : m1 \in MateAnswers, m2 \in MateAnswers }
                   ELSE { Some(<<m1>>) : m1 \in MateAnswers })

myReadName_CountOfWindow ==
    [ prefix |-> OUT_PREFIX,
      job    |-> IF NJOBS > 1 THEN Some(MYJOB) ELSE None,
      contig |-> refName,
      r      |-> NJOBS > 1,
      count  |-> Len(windows) ]

\* Lines 620-624: the read's name; r says whether the counter follows "-r".
myReadName ==
    [ prefix |-> OUT_PREFIX,
      job    |-> IF NJOBS > 1 THEN Some(MYJOB) ELSE None,
      contig |-> refName,
      r      |-> NJOBS > 1,
      count  |-> readNameCount ]

\* Lines 600-609, 614-618: the mates with their positions moved to the contig.
Shifted(mates) ==
    [k \in 1..Len(mates) |->
        IF mates[k].pos = None THEN mates[k] ELSE [mates[k] EXCEPT !.pos = Some(Val(@) + start)]]

isUnmapped(mates) == [k \in 1..Len(mates) |-> mates[k].pos = None]

AllUnmapped_Never(mates) == FALSE

AllUnmapped(mates) == \A k \in 1..Len(mates) : isUnmapped(mates)[k]

\* Lines 638-643.
UnmappedRecords(mates) ==
    IF ~AllUnmapped(mates) THEN <<>>
    ELSE IF PAIRED_END
    THEN << [name |-> <<myReadName, 1>>, flag |-> 109], [name |-> <<myReadName, 2>>, flag |-> 157] >>
    ELSE << [name |-> <<myReadName, 1>>, flag |-> 4] >>

BamRecord(ref, mate, pos, flag, mate_pos) ==
    [ref |-> ref, name |-> <<myReadName, mate>>, pos |-> pos, flag |-> flag, mate_pos |-> mate_pos]

\* Line 646: the contig's index in the reference (0-based).
myRefIndex == RI - 1

\* Lines 650-679: the write_bam_record calls for a read with a mapped mate.
BamRecords(mates) ==
    IF ~SAVE_BAM THEN <<>>
    ELSE IF Len(mates) = 1
    THEN IF ~isUnmapped(mates)[1]
         THEN << BamRecord(myRefIndex, 1, mates[1].pos, 0, None) >>
         ELSE <<>>
    ELSE IF ~isUnmapped(mates)[1] /\ ~isUnmapped(mates)[2]
         THEN << BamRecord(myRefIndex, 1, mates[1].pos, 99, mates[2].pos),
                 BamRecord(myRefIndex, 2, mates[2].pos, 147, mates[1].pos) >>
    ELSE IF ~isUnmapped(mates)[1] /\ isUnmapped(mates)[2]
         THEN << BamRecord(myRefIndex, 1, mates[1].pos, 105, mates[1].pos),
                 BamRecord(myRefIndex, 2, mates[1].pos, 149, mates[1].pos) >>
    ELSE IF isUnmapped(mates)[1] /\ ~isUnmapped(mates)[2]
         THEN << BamRecord(myRefIndex, 1, mates[2].pos, 101, mates[2].pos),
                 BamRecord(myRefIndex, 2, mates[2].pos, 153, mates[2].pos) >>
    ELSE <<>>

FastqRecords_MappedOnly(mates) ==
    IF NO_FASTQ \/ AllUnmapped(mates) THEN <<>> ELSE << [name |-> myReadName, mates |-> Len(mates)] >>

\* Lines 648-649, 655-657: the write_fastq_record call.
FastqRecords(mates) ==
    IF NO_FASTQ THEN <<>> ELSE << [name |-> myReadName, mates |-> Len(mates)] >>

\* Lines 592-682: one iteration of the sampling loop.
SampleRead ==
    /\ pc = "sample"
    /\ readsLeft > 0
    /\ LET call == [op |-> "sample_read", contig |-> RI, start |-> start, end |-> end,
                    staged |-> <<>>]
       IN  \E myReadData \in SampleReadAnswers :
             /\ MayAnswer(call, [read |-> myReadData])
             /\ twice' = Asked(call, [read |-> myReadData])
             /\ IF myReadData = None
                THEN UNCHANGED <<readNameCount, unmapped_records, outVars, sampled>>
                ELSE LET mates == Shifted(Val(myReadData))
                     IN  /\ readNameCount' = readNameCount + Len(mates)
                         /\ unmapped_records' = unmapped_records \o UnmappedRecords(mates)
                         /\ fastq' = fastq \o FastqRecords(mates)
                         /\ bam' = bam \o BamRecords(mates)
                         /\ sampled' = Append(sampled, [name |-> myReadName, mates |-> mates])
                         /\ UNCHANGED vcf
    /\ readsLeft' = readsLeft - 1
    /\ UNCHANGED <<pc, args, mutVars, jobVars, RNG_SEED, modelVars, contigVars, winVars, all_inserted_variants,
                   gathered, regionSkips, windows, progVars, ofwVars>>

\* Lines 685-700: the window's reads are done; its variants are tallied and the
\* loop moves to the next window.
FinishWindow ==
    /\ pc = "sample"
    /\ readsLeft = 0
    /\ ALL_VARIANTS_OUT' = ALL_VARIANTS_OUT \cup
                             { all_inserted_variants[k] : k \in 1..Len(all_inserted_variants) }
    /\ Advance
    /\ UNCHANGED <<args, mutVars, jobVars, seedVars, modelVars, RI, validVariants, nSkipped, vIdx, sequences,
                   bpd, next_start, next_end, vindFromPrev, varsFromPrevOverlap, varsInWindow,
                   coverage_sum2, skip_this_window, readVars, outVars, histVars, progVars, ofwVars>>

\* str(n) of an integer: its decimal digits.
RECURSIVE Digits(_)
Digits(n) == IF n < 10 THEN <<n>> ELSE Append(Digits(n \div 10), n % 10)

Str(n) == IF n < 0 THEN <<"-">> \o Digits(-n) ELSE Digits(n)

\* Line 721: the data line of a realized variant.
VcfLine(k) ==
    [chrom |-> refName, pos |-> Str(k.pos + 1), ref |-> k.ref, alt |-> k.alts, info |-> k.info]

\* Lines 702-705: '100%' closes the progress line unless the loop printed it.
PrintsFinal100 == currentPercent /= 100 /\ ~havePrinted100

\* Lines 702-721: the contig's windows are done; the progress line is closed,
\* the contig's variants are written and the contig loop moves on.
WriteVcf ==
    /\ pc = "region"
    /\ region_i > Len(N_regions_non_N)
    /\ printed' = IF PrintsFinal100 THEN Append(printed, 100) ELSE printed
    /\ vcf' = IF SAVE_VCF
              THEN LET ks == SortedVariants(ALL_VARIANTS_OUT)
                   IN  vcf \o [k \in 1..Len(ks) |-> VcfLine(ks[k])]
              ELSE vcf
    /\ RI' = RI + 1
    /\ pc' = "contig"
    /\ UNCHANGED <<args, mutVars, jobVars, seedVars, modelVars, validVariants, nSkipped, vIdx, ALL_VARIANTS_OUT,
                   sequences, winVars, readVars, fastq, bam, histVars, currentProgress,
                   currentPercent, havePrinted100, ofwVars>>

\* Lines 725-736: the unmapped records are written last, and the files closed.
WriteUnmapped ==
    /\ pc = "contig"
    /\ RI > Len(refIndex)
    /\ bam' = IF SAVE_BAM
              THEN bam \o [k \in 1..Len(unmapped_records) |->
                             [ref |-> -1, name |-> unmapped_records[k].name, pos |-> Some(0),
                              flag |-> unmapped_records[k].flag,
                              mate_pos |-> IF PAIRED_END THEN Some(0) ELSE None]]
              ELSE bam
    /\ pc' = "done"
    /\ UNCHANGED <<args, mutVars, jobVars, seedVars, modelVars, contigVars, winVars, readVars, fastq, vcf,
                   histVars, progVars, ofwVars>>

(***************************************************************************)
(* The runs of the driver that are checked                                 *)
(***************************************************************************)

\* read_ref: the maximal runs of bases other than N, as half-open intervals.
RECURSIVE NonNRuns(_, _)
NonNRuns(rle, at) ==
    IF rle = <<>> THEN <<>>
    ELSE IF rle[1][1] = "N" THEN NonNRuns(Tail(rle), at + rle[1][2])
    ELSE LET rest == NonNRuns(Tail(rle), at + rle[1][2])
         IN  IF rest /= <<>> /\ rest[1][1] = at + rle[1][2]
             THEN << <<at, rest[1][2]>> >> \o Tail(rest)
             ELSE << <<at, at + rle[1][2]>> >> \o rest

Contig(name, rle) == [name |-> name, seq |-> rle, non_N |-> NonNRuns(rle, 0)]

\* A VCF data line with one alt allele; info numbers the line in its file.
Line(chrom, pos, ref, alt) == [chrom |-> chrom, pos |-> pos, ref |-> ref, alts |-> <<alt>>]

Numbered(lines) == [k \in 1..Len(lines) |-> [chrom |-> lines[k].chrom, pos |-> lines[k].pos,
                                             ref |-> lines[k].ref, alts |-> lines[k].alts,
                                             info |-> k]]

\* The length of the long contig: with read length 10 it is tiled by two windows.
LongLen == 2500

\* A contig tiled by two windows.
RefLong == << Contig("chr1", << <<"A", LongLen>> >>) >>

\* A contig tiled by three windows.
RefTriple == << Contig("chr1", << <<"A", 3 * (LongLen \div 2)>> >>) >>

\* A contig of one window; and a contig with a region of low coverage, a run of
\* N, a region too small for a window, and a base that is no nucleotide.
RefShort ==
    << Contig("chr1", << <<"A", 60>> >>),
       Contig("chr2", << <<"A", 30>>, <<"N", 5>>, <<"A", 13>>, <<"R", 1>>, <<"A", 1>> >>) >>

\* The first window of RefLong ends at WinEnd.
WinEnd == LongLen \div 2

\* Variants around the end of the first window and near the end of the region.
LongLines ==
    { Line("chr1", WinEnd - 5, <<"A", "A", "A">>, <<"A">>),
      Line("chr1", WinEnd - 1, <<"A">>, <<"C">>),
      Line("chr1", WinEnd, <<"A">>, <<"C">>),
      Line("chr1", LongLen - 5, <<"A">>, <<"T">>) }

\* Variants of the short contigs: valid ones, and one for each way to be invalid.
ShortLines ==
    { Line("chr1", 5, <<"A">>, <<"C">>),
      Line("chr1", 20, <<"A">>, <<"A", "C">>),
      Line("chr1", 9, <<"C">>, <<"A">>),
      Line("chr1", 12, <<"A">>, <<"N">>),
      Line("chr2", 31, <<"A">>, <<"C">>),
      Line("chr2", 31, <<"N">>, <<"C">>),
      Line("chr2", 49, <<"R">>, <<"A">>) }

\* The VCF files over a set of lines: at most MaxVcfLines lines at different
\* positions, in ascending order of position and in descending order.
MaxVcfLines == 2

Ascending(f) == \A k \in 1..(Len(f) - 1) : f[k].pos < f[k + 1].pos

Reversed(f) == [k \in 1..Len(f) |-> f[Len(f) + 1 - k]]

RECURSIVE AscendingFiles(_, _)
AscendingFiles(lines, n) ==
    IF n = 0 THEN { <<>> }
    ELSE LET shorter == AscendingFiles(lines, n - 1)
         IN  shorter \cup { f \in { Append(g, l) : g \in shorter, l \in lines } : Ascending(f) }

VcfFiles(lines) ==
    { Numbered(f) : f \in AscendingFiles(lines, MaxVcfLines) } \cup
    { Numbered(Reversed(f)) : f \in AscendingFiles(lines, MaxVcfLines) }

SingleEnd(ref, vcf_lines) ==
    [DefaultArgs EXCEPT !.r = ref, !.v = Some(vcf_lines), !.bam = TRUE, !.vcf = TRUE, !.rng = 1]

\* The command lines of the driver's runs: single-end runs over the variants,
\* and each option on the short reference.
OptionArgs ==
    LET base == SingleEnd(RefShort, Numbered(<< Line("chr1", 5, <<"A">>, <<"C">>) >>))
    IN  { base,
          [base EXCEPT !.v = None],
          [base EXCEPT !.bam = FALSE],
          [base EXCEPT !.vcf = FALSE],
          [base EXCEPT !.no_fastq = TRUE],
          [base EXCEPT !.no_fastq = TRUE, !.bam = FALSE],
          [base EXCEPT !.no_fastq = TRUE, !.bam = FALSE, !.vcf = FALSE],
          [base EXCEPT !.R = 9],
          [base EXCEPT !.c = <<1, 6>>],
          [base EXCEPT !.rng = -1],
          [base EXCEPT !.t = Some(<< [chrom |-> "chr1", pos1 |-> 10, pos2 |-> 50] >>)],
          [base EXCEPT !.t = Some(<< [chrom |-> "chr1", pos1 |-> 10, pos2 |-> 50] >>), !.to = 2],
          [base EXCEPT !.t = Some(<< [chrom |-> "chr2", pos1 |-> 0, pos2 |-> 30] >>), !.to = 2],
          [base EXCEPT !.pe = <<20, 0>>],
          [base EXCEPT !.pe = <<20, 1>>],
          [base EXCEPT !.pe = <<0, 0>>],
          [base EXCEPT !.pe = <<2, 1>>],
          [base EXCEPT !.pe_model = Some([vals |-> <<15, 25>>, probs |-> <<1, 1>>])],
          [base EXCEPT !.pe_model = Some([vals |-> <<5>>, probs |-> <<1>>])] }

\* The values given to the range-checked options: the ends of each range, a
\* value beyond each end, and the defaults that stand for "not given".
ReadLengths == { 9, 10, 1000001 }
Coverages == { <<-1, 1>>, <<0, 1>>, <<1000001, 1>> }
Ploidies == { 0, 1, 100, 101 }
OffTargets == { -1, 0, 2, 3 }
Rates == { -100, -50, -1, 0, 30, 31, 100 }
Thresholds == { -5, -1, 0, 1, 40, 41 }
JobPairs ==
    { <<0, 0>>, <<0, 5>>, <<1, 1>>, <<5, 1>>, <<-3, 1>>, <<1, 2>>, <<2, 2>>, <<3, 2>>,
      <<1, 0>>, <<1, -1>>, <<-1, 2>>, <<2, 4>>, <<4, 4>>, <<1, 1000>>, <<1000, 1000>>,
      <<1, 1001>>, <<1001, 1001>> }

\* The command lines of the checks at startup: one option away from a run on
\* the short reference, with and without an output selected.
StartArgs ==
    LET base == SingleEnd(RefShort, Numbered(<< Line("chr1", 5, <<"A">>, <<"C">>) >>))
        one == { [base EXCEPT !.R = x] : x \in ReadLengths }
               \cup { [base EXCEPT !.c = x] : x \in Coverages }
               \cup { [base EXCEPT !.p = x] : x \in Ploidies }
               \cup { [base EXCEPT !.to = x] : x \in OffTargets }
               \cup { [base EXCEPT !.M = x] : x \in Rates }
               \cup { [base EXCEPT !.E = x] : x \in Rates }
               \cup { [base EXCEPT !.N = x] : x \in Thresholds }
               \cup { [base EXCEPT !.job = x] : x \in JobPairs }
    IN  one \cup { [a EXCEPT !.no_fastq = TRUE, !.bam = FALSE, !.vcf = FALSE] :
                     a \in { [base EXCEPT !.p = 0], [base EXCEPT !.job = <<2, 2>>] } }
            \cup { [base EXCEPT !.job = x, !.c = <<1, 6>>] : x \in { <<1, 2>>, <<2, 2>> } }
            \cup { [base EXCEPT !.job = <<1, 2>>, !.pe = <<20, 0>>] }

\* Runs whose windows have a successor in their region: after a window that a
\* variant near its end made longer, after a window outside the targeted
\* regions, in paired-end mode, and after both.
TilingArgs ==
    { SingleEnd(RefTriple, Numbered(<< Line("chr1", WinEnd - 1, <<"A">>, <<"C">>) >>)),
      [SingleEnd(RefLong, <<>>) EXCEPT
          !.t = Some(<< [chrom |-> "chr1", pos1 |-> WinEnd + 250, pos2 |-> LongLen - 100] >>)],
      [SingleEnd(RefLong, <<>>) EXCEPT !.pe = <<12, 0>>],
      [SingleEnd(RefTriple, Numbered(<< Line("chr1", 2 * WinEnd - 11, <<"A">>, <<"C">>) >>)) EXCEPT
          !.t = Some(<< [chrom |-> "chr1", pos1 |-> WinEnd + 250, pos2 |-> 3 * WinEnd - 100] >>)] }

\* A contig whose first region is tiled by so many windows that their overlaps
\* add up to more than a hundredth of the contig, alone and before a second
\* region that is just large enough for a window.
ManyWindows == 199

ManyLen == ManyWindows * WINDOW_TARGET_SCALE * 10

RefMany == << Contig("chr1", << <<"A", ManyLen>> >>) >>

RefManyAndSmall == << Contig("chr1", << <<"A", ManyLen>>, <<"N", 5>>, <<"A", 20>> >>) >>

\* Runs over them whose windows are all outside the targeted regions, with
\* off-target coverage 0: every window is counted for the progress and skipped.
ProgressArgs ==
    { [SingleEnd(ref, <<>>) EXCEPT
          !.t = Some(<< [chrom |-> "chr2", pos1 |-> 0, pos2 |-> 1] >>), !.to = 0] :
        ref \in { RefMany, RefManyAndSmall } }

DriverArgs ==
    { SingleEnd(RefLong, f) : f \in VcfFiles(LongLines) }
    \cup { SingleEnd(RefShort, f) : f \in VcfFiles(ShortLines) }
    \cup OptionArgs
    \cup StartArgs
    \cup TilingArgs
    \cup ProgressArgs

\* Lines 702-736 when the run stops early: sys.exit and an uncaught exception
\* leave the process; nothing follows.
Final == {"done", "exit", "exception"}

Next ==
    \/ Setup
    \/ LoadEmpiricalModel
    \/ BuildArtificialModel
    \/ NoFragmentModel
    \/ RangeChecks
    \/ ProcessInputs
    \/ BeginContig
    \/ ValidateVariant
    \/ BeginSampling
    \/ LoopRegion
    \/ WindowHead
    \/ SkipWindow
    \/ EngineStep
    \/ SampleRead
    \/ FinishWindow
    \/ WriteVcf
    \/ WriteUnmapped

Init == InitMain(DriverArgs)

Spec == Init /\ [][Next]_vars

\* The validation of input variants on its own: every VCF line of one or two
\* bases against a reference with nucleotides, N, and a base that is neither.
MaxValidPos == 6

RefValid == << Contig("chr1", << <<"A", 2>>, <<"N", 1>>, <<"R", 1>>, <<"A", 1>>, <<"C", 1>> >>) >>

ValidBases == {"A", "N", "R"}

ValidAlleles == { <<b>> : b \in ValidBases } \cup { <<b, c>> : b \in ValidBases, c \in {"A", "C"} }

ValidLines ==
    { Line("chr1", p, r, a) : p \in 0..MaxValidPos, r \in ValidAlleles, a \in { <<"C">>, <<"R">>, <<"A", "N">> } }

ValidArgs ==
    { SingleEnd(RefValid, Numbered(<<l>>)) : l \in ValidLines }
    \cup { SingleEnd(RefValid, Numbered(<<l, Line("chr1", 2, <<"A">>, <<"C">>)>>)) : l \in ValidLines }

InitValid == InitMain(ValidArgs)

NextValid ==
    \/ Setup
    \/ NoFragmentModel
    \/ RangeChecks
    \/ ProcessInputs
    \/ BeginContig
    \/ ValidateVariant
    \/ BeginSampling

SpecValid == InitValid /\ [][NextValid]_vars

\* Two runs of the driver, one after the other, on the same command line and
\* the same inputs. The first run's seed, random answers and output are kept
\* for the second.
TwiceArgs ==
    LET base == SingleEnd(RefShort, Numbered(<< Line("chr1", 5, <<"A">>, <<"C">>) >>))
    IN  { [base EXCEPT !.rng = s, !.pe = p, !.pe_model = m] :
            s \in {-1, 1},
            p \in {None, <<20, 0>>},
            m \in {None} } \cup
        { [base EXCEPT !.rng = s, !.pe_model = Some([vals |-> <<15, 25>>, probs |-> <<1, 1>>])] :
            s \in {-1, 1} }

FirstRun == [run |-> 1, tape |-> <<>>, pos |-> 1, sync |-> FALSE, first |-> <<>>]

InitTwice ==
    /\ pc = "start"
    /\ args \in TwiceArgs
    /\ RNG_SEED = None /\ twice = FirstRun
    /\ MutIdle
    /\ myRegions = None /\ OFW = None
    /\ FRAGMENT_SIZE = None /\ FRAGLEN_DISTRIBUTION = None
    /\ RI = 0 /\ validVariants = <<>> /\ nSkipped = <<0, 0, 0>> /\ vIdx = 0
    /\ ALL_VARIANTS_OUT = {} /\ sequences = None
    /\ region_i = 0 /\ bpd = 0 /\ start = 0 /\ end = 0 /\ next_start = 0 /\ next_end = 0
    /\ isLastTime = FALSE /\ vindFromPrev = 1 /\ varsFromPrevOverlap = <<>>
    /\ varsInWindow = <<>> /\ coverage_sum2 = 0 /\ skip_this_window = FALSE
    /\ all_inserted_variants = <<>> /\ readsLeft = 0 /\ readNameCount = 1
    /\ unmapped_records = <<>>
    /\ fastq = <<>> /\ bam = <<>> /\ vcf = <<>>
    /\ currentProgress = 0 /\ currentPercent = 0 /\ havePrinted100 = FALSE /\ printed = <<>>
    /\ gathered = <<>> /\ regionSkips = 0 /\ windows = <<>> /\ sampled = <<>>
    /\ OfwIdle

\* The first run is over; the second starts from a fresh process.
Restart ==
    /\ pc \in Final
    /\ twice.run = 1
    /\ twice' = [run |-> 2, tape |-> <<>>, pos |-> 1, sync |-> FALSE,
                 first |-> << [seed |-> RNG_SEED, tape |-> twice.tape, pc |-> pc,
                               windows |-> windows, fastq |-> fastq, bam |-> bam,
                               vcf |-> vcf] >>]
    /\ pc' = "start"
    /\ RNG_SEED' = None
    /\ myRegions' = None /\ OFW' = None
    /\ FRAGMENT_SIZE' = None /\ FRAGLEN_DISTRIBUTION' = None
    /\ RI' = 0 /\ validVariants' = <<>> /\ nSkipped' = <<0, 0, 0>> /\ vIdx' = 0
    /\ ALL_VARIANTS_OUT' = {} /\ sequences' = None
    /\ region_i' = 0 /\ bpd' = 0 /\ start' = 0 /\ end' = 0 /\ next_start' = 0 /\ next_end' = 0
    /\ isLastTime' = FALSE /\ vindFromPrev' = 1 /\ varsFromPrevOverlap' = <<>>
    /\ varsInWindow' = <<>> /\ coverage_sum2' = 0 /\ skip_this_window' = FALSE
    /\ all_inserted_variants' = <<>> /\ readsLeft' = 0 /\ readNameCount' = 1
    /\ unmapped_records' = <<>>
    /\ fastq' = <<>> /\ bam' = <<>> /\ vcf' = <<>>
    /\ currentProgress' = 0 /\ currentPercent' = 0 /\ havePrinted100' = FALSE /\ printed' = <<>>
    /\ gathered' = <<>> /\ regionSkips' = 0 /\ windows' = <<>> /\ sampled' = <<>>
    /\ UNCHANGED <<args, mutVars, ofwVars>>

NextTwice == Next \/ Restart

SpecTwice == InitTwice /\ [][NextTwice]_vars

\* The values a distribution can return.
Support(d) == { d.values[k] : k \in 1..Len(d.values) }

\* C10 as stated: in every paired-end configuration every value of the support of
\* the constructed distribution exceeds the read length, and in the artificial
\* case with std > 0 the support is the integers of [mean - 6 std, mean + 6 std]
\* above the read length.
C10_SupportAboveReadLength ==
    (pc = "range_checks" /\ PAIRED_END) =>
        /\ \A v \in Support(FRAGLEN_DISTRIBUTION) : v > READLEN
        /\ (PAIRED_END_ARTIFICIAL /\ FRAGMENT_STD > 0) =>
              Support(FRAGLEN_DISTRIBUTION) =
                { v \in (args.pe[1] - 6 * FRAGMENT_STD)..(args.pe[1] + 6 * FRAGMENT_STD) : v > READLEN }

(***************************************************************************)
(* The standard binning scheme, as the index format defines it: six levels *)
(* of bins, of widths 2^29 .. 2^14, numbered from the level's offset.      *)
(***************************************************************************)
StdLevels == 0..5
StdWidth(l) == Pow2(29 - 3 * l)
StdOffset(l) ==
    CASE l = 5 -> (Pow2(15) - 1) \div 7
      [] l = 4 -> (Pow2(12) - 1) \div 7
      [] l = 3 -> (Pow2(9) - 1) \div 7
      [] l = 2 -> (Pow2(6) - 1) \div 7
      [] l = 1 -> (Pow2(3) - 1) \div 7
      [] l = 0 -> 0

\* The bin of level l that holds position beg covers [k*w, (k+1)*w).
StdContains(l, beg, rend) ==
    LET w == StdWidth(l)
        k == beg \div w
    IN  k * w <= beg /\ rend <= (k + 1) * w

StdSmallestBin(beg, rend) ==
    LET ls == { l \in StdLevels : StdContains(l, beg, rend) }
        l  == CHOOSE x \in ls : \A y \in ls : StdWidth(x) <= StdWidth(y)
    IN  StdOffset(l) + beg \div StdWidth(l)

InClaimedRange(r) == 0 <= r.position /\ r.position < r.end_point /\ r.end_point <= Pow2(29)

\* C7: for 0 <= beg < end <= 2^29, reg2bin(beg, rend) is the id of the smallest
\* bin of the standard six-level scheme that fully contains [beg, end).
C7_Reg2binIsSmallestBin ==
    (pc = "bam_written" /\ InClaimedRange(read))
        => read_bin = StdSmallestBin(read.position, read.end_point)

\* C7 witness: an interval that straddles a 16 kb boundary has been binned one
\* level up.
C7_Witness ==
    /\ pc = "bam_written"
    /\ InClaimedRange(read)
    /\ read.position = Pow2(14) - 1
    /\ read.end_point = Pow2(14) + 1
    /\ read_bin = (Pow2(12) - 1) \div 7

\* C8 as stated: reg2bin(0, 1) returns 4680 and reg2bin(0, 1<<29) returns 0.
C8_Original ==
    pc = "bam_written" /\ read.position = 0 =>
        /\ (read.end_point = 1 => read_bin = 4680)
        /\ (read.end_point = Pow2(29) => read_bin = 0)

\* C8 amended: reg2bin(0, 1) returns 4681, the first bin of the finest level,
\* and reg2bin(0, 1<<29) returns 0.
C8_KnownBins ==
    pc = "bam_written" /\ read.position = 0 =>
        /\ (read.end_point = 1 => read_bin = 4681)
        /\ (read.end_point = Pow2(29) => read_bin = 0)

\* C8 witness: the interval [0, 1) has been binned into the first bin of the
\* finest level.
C8_Witness ==
    /\ pc = "bam_written"
    /\ read.position = 0
    /\ read.end_point = 1
    /\ read_bin = 4681


(***************************************************************************)
(* Two runs on the same command line                                       *)
(***************************************************************************)
IsPrefix(s, t) == Len(s) <= Len(t) /\ s = SubSeq(t, 1, Len(s))

FirstRunOutput == twice.first[1]

SameAsFirstRun ==
    /\ IsPrefix(windows, FirstRunOutput.windows)
    /\ IsPrefix(fastq, FirstRunOutput.fastq)
    /\ IsPrefix(bam, FirstRunOutput.bam)
    /\ IsPrefix(vcf, FirstRunOutput.vcf)
    /\ pc \in Final =>
          /\ pc = FirstRunOutput.pc
          /\ windows = FirstRunOutput.windows
          /\ fastq = FirstRunOutput.fastq
          /\ bam = FirstRunOutput.bam
          /\ vcf = FirstRunOutput.vcf

RegionTiled(i) ==
    \E k \in 1..Len(windows) :
        /\ windows[k].contig = RI
        /\ N_regions_non_N[i][1] <= windows[k].start
        /\ windows[k].start < N_regions_non_N[i][2]

\* C2 as stated: when the loop over a tiled region in which no window was
\* skipped has ended, every valid input variant whose position lies inside the
\* region has been gathered into varsInWindow by exactly one window.
C2_GatheredExactlyOnce ==
    (pc = "region" /\ region_i > 1 /\ RegionTiled(region_i - 1) /\ regionSkips = 0) =>
        \A j \in 1..Len(validVariants) :
            (/\ N_regions_non_N[region_i - 1][1] < validVariants[j].pos
             /\ validVariants[j].pos < N_regions_non_N[region_i - 1][2])
                => gathered[j] = 1

(***************************************************************************)
(* Reads without a mapping position                                        *)
(***************************************************************************)
AllAbsent(s) == \A k \in 1..Len(s.mates) : s.mates[k].pos = None

Queued(name, mate, flag) ==
    \E k \in 1..Len(unmapped_records) :
        unmapped_records[k] = [name |-> <<name, mate>>, flag |-> flag]

\* C3: every sampled read whose mates all have no mapping position is on the
\* unmapped list (flag 4 single-end; flags 109 and 157 paired-end), has no BAM
\* record while the contigs are processed, and when BAM output is on, its BAM
\* records come after every mapped record of every contig.
C3_UnmappedBucketing ==
    \A i \in 1..Len(sampled) :
        AllAbsent(sampled[i]) =>
            /\ IF PAIRED_END
               THEN Queued(sampled[i].name, 1, 109) /\ Queued(sampled[i].name, 2, 157)
               ELSE Queued(sampled[i].name, 1, 4)
            /\ pc /= "done" => \A b \in 1..Len(bam) : bam[b].name[1] /= sampled[i].name
            /\ (pc = "done" /\ SAVE_BAM) =>
                  \A m \in 1..Len(sampled[i].mates) :
                      \E b \in 1..Len(bam) :
                          /\ bam[b].name = <<sampled[i].name, m>>
                          /\ bam[b].ref = -1
                          /\ \A c \in 1..Len(bam) : bam[c].ref /= -1 => c < b

\* C3 witness: a run that wrote BAM has ended with a mapped record before the
\* record of an unmapped read.
C3_Witness ==
    /\ pc = "done"
    /\ SAVE_BAM
    /\ \E i \in 1..Len(sampled) : AllAbsent(sampled[i])
    /\ \E b \in 1..Len(bam) : bam[b].ref /= -1
    /\ \E b \in 1..Len(bam) : bam[b].ref = -1 /\ bam[b].flag = 4

(***************************************************************************)
(* The validation of input variants                                        *)
(***************************************************************************)
\* The reference allele of n is the reference at n's position.
RefAlleleMatches(n) ==
    /\ n.pos - 1 >= 0
    /\ n.pos - 1 + Len(n.ref) <= RefLen(refSequence)
    /\ \A k \in 1..Len(n.ref) : RefAt(refSequence, n.pos - 1 + k - 1) = n.ref[k]

\* A base of n's reference span is N.
SpansN(n) ==
    \E k \in 1..Len(n.ref) :
        /\ n.pos - 1 + k - 1 >= 0
        /\ n.pos - 1 + k - 1 < RefLen(refSequence)
        /\ RefAt(refSequence, n.pos - 1 + k - 1) = "N"

AltsAllowed(n) ==
    \A a \in 1..Len(n.alts) : \A k \in 1..Len(n.alts[a]) : n.alts[a][k] \in {"A", "C", "G", "T"}

RefAlleleAllowed(n) == \A k \in 1..Len(n.ref) : n.ref[k] \in {"A", "C", "G", "T"}

Validating == pc \in {"validate", "region", "window", "window_body", "sample"}

\* C4 as stated: every accepted variant matches the reference, spans no N, and
\* has only A, C, G, T in its reference allele and in every alt allele.
C4_Original ==
    Validating =>
        \A j \in 1..Len(validVariants) :
            /\ RefAlleleMatches(validVariants[j])
            /\ ~SpansN(validVariants[j])
            /\ RefAlleleAllowed(validVariants[j])
            /\ AltsAllowed(validVariants[j])

\* C4 amended: every accepted variant matches the reference, spans no N, and
\* has only A, C, G, T in every alt allele; its reference allele holds whatever
\* the reference holds there.
C4_AcceptedVariantsValid ==
    Validating =>
        \A j \in 1..Len(validVariants) :
            /\ RefAlleleMatches(validVariants[j])
            /\ ~SpansN(validVariants[j])
            /\ AltsAllowed(validVariants[j])

\* C4 witness: a variant has been accepted whose reference allele is the
\* reference's base R.
C4_Witness ==
    /\ pc = "validate"
    /\ \E j \in 1..Len(validVariants) : validVariants[j].ref = <<"R">>

\* The input variants the validation loop has been through, by their fate.
Seen(input) == 1..Min(vIdx - 1, Len(input))
Mismatching(input) == { k \in Seen(input) : ~RefAlleleMatches(input[k]) }
OverN(input) == { k \in Seen(input) : RefAlleleMatches(input[k]) /\ SpansN(input[k]) }
BadAlt(input) ==
    { k \in Seen(input) :
        RefAlleleMatches(input[k]) /\ ~SpansN(input[k]) /\ ~AltsAllowed(input[k]) }
Accepted(input) ==
    { k \in Seen(input) :
        RefAlleleMatches(input[k]) /\ ~SpansN(input[k]) /\ AltsAllowed(input[k]) }

\* C5: every input variant of the contig is accepted or counted once, as
\* ref-mismatch first, then overlaps-N, then disallowed character; the accepted
\* and the counted add up to the input; and a variant whose reference allele
\* differs from the reference is counted as ref-mismatch and is never staged
\* for insertion.
C5_RejectionCounters ==
    Validating =>
        LET input == inputVariants(refName)
            mismatching == Mismatching(input)
            accepted == Accepted(input)
        IN  /\ nSkipped = <<Cardinality(mismatching), Cardinality(OverN(input)),
                            Cardinality(BadAlt(input))>>
            /\ Len(validVariants) = Cardinality(accepted)
            /\ \A k \in accepted : \E j \in 1..Len(validVariants) : validVariants[j] = input[k]
            /\ Len(validVariants) + nSkipped[1] + nSkipped[2] + nSkipped[3]
                   = Cardinality(Seen(input))
            /\ pc /= "validate" => Cardinality(Seen(input)) = Len(input)
            /\ sequences /= None =>
                   \A s \in 1..Len(Val(sequences).staged) :
                       \A k \in mismatching :
                           Val(sequences).staged[s].info /= input[k].info

\* C5 witness: of two input variants one was counted as ref-mismatch and the
\* other was staged for insertion.
C5_Witness ==
    /\ pc = "sample"
    /\ nSkipped = <<1, 0, 0>>
    /\ Len(validVariants) = 1
    /\ sequences /= None
    /\ Len(Val(sequences).staged) = 1

(***************************************************************************)
(* Positions from the input VCF to the output VCF                          *)
(***************************************************************************)
\* The number a string of decimal digits stands for.
RECURSIVE DecimalValue(_)
DecimalValue(s) ==
    IF s = <<>> THEN 0 ELSE 10 * DecimalValue(SubSeq(s, 1, Len(s) - 1)) + s[Len(s)]

\* The input VCF line (of the contig named chrom) a variant tuple came from.
InputLine(chrom, v) ==
    CHOOSE l \in { Val(INPUT_VCF)[k] : k \in 1..Len(Val(INPUT_VCF)) } :
        l.chrom = chrom /\ l.info = v.info

FromInput(v) == v.info > 0

\* C6: an accepted input variant at VCF position P is staged at position P - 1,
\* and when the engine returns it at that position, its line in the output VCF
\* has POS = P.
C6_PositionRoundTrip ==
    /\ pc = "window_body" =>
          \A k \in 1..Len(varsInWindow) :
              varsInWindow[k].pos = InputLine(refName, varsInWindow[k]).pos - 1
    /\ (pc = "contig" /\ RI > 1 /\ SAVE_VCF) =>
          \A v \in ALL_VARIANTS_OUT :
              (FromInput(v) /\ v.pos = InputLine(refIndex[RI - 1].name, v).pos - 1) =>
                  \E k \in 1..Len(vcf) :
                      /\ vcf[k].chrom = refIndex[RI - 1].name
                      /\ vcf[k].info = v.info
                      /\ DecimalValue(vcf[k].pos) = InputLine(refIndex[RI - 1].name, v).pos

\* C6 witness: the output VCF has the line of an input variant at a position
\* of four digits.
C6_Witness ==
    /\ pc = "contig" /\ RI > 1 /\ SAVE_VCF
    /\ \E v \in ALL_VARIANTS_OUT : FromInput(v) /\ v.pos >= 1000
    /\ \E k \in 1..Len(vcf) : vcf[k].info > 0 /\ Len(vcf[k].pos) = 4

(***************************************************************************)
(* Windows of low coverage                                                 *)
(***************************************************************************)
LowCoverage == coverage_sum2 < 2 * LOW_COV_THRESH

\* C9: for a window whose coverage weights sum to less than LOW_COV_THRESH the
\* engine is neither built nor updated, no read is sampled or emitted, and the
\* driver goes straight to the next tile.
C9_LowCoverageSkipped ==
    /\ [](pc = "sample" => ~LowCoverage)
    /\ [][(pc = "window_body" /\ LowCoverage) =>
            /\ sequences' = sequences
            /\ sampled' = sampled
            /\ readNameCount' = readNameCount
            /\ unmapped_records' = unmapped_records
            /\ fastq' = fastq /\ bam' = bam
            /\ start' = next_start /\ end' = next_end
            /\ pc' \in {"window", "region"}]_vars

\* C9 witness: a window large enough to sample from was skipped for its low
\* coverage.
C9_Witness ==
    \E k \in 1..Len(windows) :
        /\ windows[k].skipped
        /\ windows[k].sum2 < 2 * LOW_COV_THRESH
        /\ windows[k].end - windows[k].start >= overlap_minWindowSize

(***************************************************************************)
(* merge_temp_fastqs                                                       *)
(***************************************************************************)
RECURSIVE Flatten(_)
Flatten(ss) == IF ss = <<>> THEN <<>> ELSE ss[1] \o Flatten(Tail(ss))

\* The records of the temporary files: read 1 and read 2 of the pairs, and the
\* singletons of either file.
InputRead1 == Flatten([k \in 1..Len(fastq_files) |-> fastq_files[k].paired[1].records])

InputRead2 == Flatten([k \in 1..Len(fastq_files) |-> fastq_files[k].paired[2].records])

InputSingletons ==
    Flatten([k \in 1..Len(fastq_files) |->
                fastq_files[k].single[1].records \o fastq_files[k].single[2].records])

Occurrences(s, x) == Cardinality({ k \in 1..Len(s) : s[k] = x })

IsPermutation(a, b) ==
    /\ Len(a) = Len(b)
    /\ \A x \in CharsOf(a) \cup CharsOf(b) : Occurrences(a, x) = Occurrences(b, x)

Written(file) == IF file = None THEN <<>> ELSE Val(file)

Mates(a, b) == a.contig = b.contig /\ a.k = b.k /\ a.mate = 1 /\ b.mate = 2

\* C11: merge_temp_fastqs completes for any temporary files, and then the first
\* output is a permutation of the read-1 records and the singletons, the second
\* a permutation of the read-2 records, and the first N records of the two
\* outputs are mates.
C11_MergeWritesPermutation ==
    /\ pc /= "merge_exception"
    /\ pc = "merge_returned" =>
          /\ IsPermutation(Written(fq1), InputRead1 \o InputSingletons)
          /\ IsPermutation(Written(fq2), InputRead2)
          /\ \A k \in 1..Len(InputRead2) : Mates(Written(fq1)[k], Written(fq2)[k])

\* A record of a paired file is in the first output.
PairedWritten == \E k \in 1..Len(Written(fq1)) : Written(fq1)[k] \in CharsOf(InputRead1)

\* C12: when merge_temp_fastqs has returned, the second output exists exactly
\* when a paired record was written, and then it holds a record; with no paired
\* record written it is gone.
C12_SecondOutputIffPaired ==
    pc = "merge_returned" =>
        /\ (fq2 /= None) <=> PairedWritten
        /\ fq2 /= Some(<<>>)

\* C12 witness: the method returned having written singletons only, and the
\* second output is gone.
C12_Witness ==
    /\ pc = "merge_returned"
    /\ fq2 = None
    /\ fq1 /= Some(<<>>)
    /\ ~PairedWritten

(***************************************************************************)
(* The size of a BAM record                                                *)
(***************************************************************************)
\* The four bytes at 0-based offset k of the bytes written, as a number.
Int32At(bytes, k) ==
    bytes[k + 1] + 256 * bytes[k + 2] + 65536 * bytes[k + 3] + 16777216 * bytes[k + 4]

\* The CIGAR operations of a CIGAR string: its letters.
NumberOfOps(cigar) == Cardinality({ k \in 1..Len(cigar) : DigitValue(cigar[k]) < 0 })

C23_MateFields ==
    pc = "bam_written" =>
        LET next_pos == Int32At(Val(bam_handle), 28)
            template_length == Int32At(Val(bam_handle), 32)
        IN  /\ read.mpos = None => (next_pos = 0 /\ template_length = 0)
            /\ read.mpos /= None => (next_pos = Val(read.mpos) /\ template_length = read.tlen)

\* The same of the reads whose mate is not at position 0.
MateFieldsAwayFromZero == read.mpos /= Some(0) => C23_MateFields


(***************************************************************************)
(* Only the VCF is produced                                                *)
(***************************************************************************)
OnlyVcfRequested == args.no_fastq /\ args.vcf /\ ~args.bam

Realized == { all_inserted_variants[k] : k \in 1..Len(all_inserted_variants) }

\* C13: in a run asked for the VCF only (no FASTQ, VCF, no BAM), and in no other
\* run, the sampling of reads is bypassed: no read is sampled and no FASTQ or BAM
\* record is written, while the variants that random_mutations returned for a
\* window are in the contig's accumulated variants when the window is left.
C13_OnlyVcfBypassesReads ==
    /\ [](OnlyVcfRequested =>
            /\ sampled = <<>> /\ fastq = <<>> /\ bam = <<>> /\ unmapped_records = <<>>
            /\ pc = "sample" => readsLeft = 0)
    /\ [][(pc = "window_body" /\ pc' = "sample") => (readsLeft' = 0 <=> OnlyVcfRequested)]_vars
    /\ [][(OnlyVcfRequested /\ pc = "sample" /\ pc' /= "sample") =>
            Realized \subseteq ALL_VARIANTS_OUT']_vars

\* C13 witness: a run asked for the VCF only has left a window whose realized
\* variants, one of them random, are accumulated, and no read was sampled.
C13_Witness ==
    /\ OnlyVcfRequested
    /\ pc \in {"window", "region"}
    /\ \E k \in 1..Len(windows) : ~windows[k].skipped
    /\ \E v \in ALL_VARIANTS_OUT : ~FromInput(v)
    /\ Realized /= {} /\ Realized \subseteq ALL_VARIANTS_OUT
    /\ sampled = <<>>

(***************************************************************************)
(* The checks at startup                                                   *)
(***************************************************************************)
BeforeConstruction == {"start", "models", "range_checks", "inputs"}

\* Nothing was constructed, written or sampled.
NothingDone ==
    /\ OFW = None
    /\ windows = <<>> /\ sampled = <<>>
    /\ fastq = <<>> /\ bam = <<>> /\ vcf = <<>>

Within(x, lower, upper) == lower <= x /\ x <= upper

NoOutputRequested == args.no_fastq /\ ~args.bam /\ ~args.vcf

\* A read length, coverage, ploidy, off-target scalar or N-masking threshold
\* (when one is given) outside its range.
OutOfRange ==
    \/ ~Within(args.R, 10, 1000000)
    \/ ~Within(args.c[1], 0, 1000000 * args.c[2])
    \/ ~Within(args.p, 1, 100)
    \/ ~Within(args.to, 0, 2)
    \/ args.N /= -1 /\ ~Within(args.N, 1, 40)

NoRegionOwned == myRegions = Some({})

\* C14: a run with no output selected, with a read length, coverage, ploidy,
\* off-target scalar or N-masking threshold out of range, or whose job owns no
\* region, exits before the OutputFileWriter is constructed: no output is
\* created and no window is processed.
C14_EarlyExitBeforeWriter ==
    /\ []((NoOutputRequested \/ OutOfRange \/ NoRegionOwned) =>
            NothingDone /\ pc \in BeforeConstruction \cup {"exit"})
    /\ [][(pc = "start" /\ NoOutputRequested) => pc' = "exit"]_vars
    /\ [][(pc = "range_checks" /\ OutOfRange) => pc' = "exit"]_vars
    /\ [][(pc = "inputs" /\ myRegions' = Some({})) => pc' = "exit"]_vars

\* C14 witness: a job of several has exited for owning no region, with nothing
\* constructed.
C14_Witness == pc = "exit" /\ NoRegionOwned /\ args.job[2] > 1 /\ NothingDone

\* C15: past the checks of the input, the job id and the job count satisfy
\* 1 <= job id <= job count <= 1000.
C15_ResolvedJobInRange ==
    pc \notin {"start", "models", "range_checks", "exit", "exception"} =>
        1 <= MYJOB /\ MYJOB <= NJOBS /\ NJOBS <= 1000

RateGiven(x) == x /= DefaultArgs.M

\* C16: a run given a mutation rate or an error rate outside [0, 0.3] exits
\* before any window is processed.
C16_RatesOutOfRangeExit ==
    /\ [](((RateGiven(args.M) /\ ~Within(args.M, 0, 30)) \/ (RateGiven(args.E) /\ ~Within(args.E, 0, 30))) =>
            windows = <<>> /\ pc \in BeforeConstruction \cup {"exit"})
    /\ [][(pc = "range_checks" /\ ((RateGiven(args.M) /\ ~Within(args.M, 0, 30))
                                    \/ (RateGiven(args.E) /\ ~Within(args.E, 0, 30)))) => pc' = "exit"]_vars

(***************************************************************************)
(* The names of the reads                                                  *)
(***************************************************************************)
MultiJob == args.job[1] /= 0 /\ args.job[2] > 1

NamedLikeJob(name) ==
    /\ name.prefix = args.o
    /\ name.job = (IF MultiJob THEN Some(args.job[1]) ELSE None)

DistinctNames == \A i, j \in 1..Len(sampled) : sampled[i].name = sampled[j].name => i = j

CounterFollowsResults ==
    /\ [][sampled' /= sampled =>
            /\ sampled'[Len(sampled')].name.count = readNameCount
            /\ sampled'[Len(sampled')].name.contig = refName
            /\ readNameCount' = readNameCount + Len(sampled'[Len(sampled')].mates)]_vars
    /\ [][(sampled' = sampled /\ pc /= "inputs" /\ pc' /= "start") => readNameCount' = readNameCount]_vars

OverlapOfRun ==
    IF args.pe = None /\ args.pe_model = None THEN args.R ELSE Val(FRAGMENT_SIZE)

SameRegion(a, b) == a.contig = b.contig /\ a.region = b.region

\* C20: within a region every window after the first starts overlap bases
\* before the end, as it finally was, of the window before it, whether that
\* window was made longer for a variant, skipped, or neither.
C20_WindowsOverlap ==
    \A k \in 1..(Len(windows) - 1) :
        SameRegion(windows[k], windows[k + 1]) =>
            windows[k + 1].start = windows[k].end - OverlapOfRun

\* C20 witness: in a region of three windows the second follows a window that
\* was made longer than the step for a variant near its end.
C20_Witness ==
    /\ Len(windows) >= 3
    /\ SameRegion(windows[1], windows[2]) /\ SameRegion(windows[2], windows[3])
    /\ ~windows[1].skipped
    /\ windows[1].end - windows[1].start > bpd
    /\ windows[2].start = windows[1].end - args.R

\* The sampled reads whose every mate is unmapped.
FullyUnmapped(r) == \A k \in 1..Len(r.mates) : r.mates[k].pos = None

NamesQueued == { unmapped_records[k].name[1] : k \in 1..Len(unmapped_records) }

NamesInFastq == { fastq[k].name : k \in 1..Len(fastq) }

\* C25: when FASTQ generation is not bypassed, one FASTQ record is written for
\* every sampled read, in the order of sampling, whether or not a mate of it is
\* mapped; when it is bypassed, none is written. The reads whose every mate is
\* unmapped, and only those, are queued on the unmapped-records list.
C25_FastqForEveryRead ==
    /\ fastq = IF NO_FASTQ THEN <<>>
               ELSE [k \in 1..Len(sampled) |->
                        [name |-> sampled[k].name, mates |-> Len(sampled[k].mates)]]
    /\ NamesQueued = { sampled[k].name : k \in { j \in 1..Len(sampled) : FullyUnmapped(sampled[j]) } }

\* C25 as stated: a FASTQ record is written only for a read with a mapped mate,
\* and a read that is queued has no FASTQ record.
C25_Original ==
    /\ fastq /= <<>> => ~NO_FASTQ
    /\ \A k \in 1..Len(sampled) :
         sampled[k].name \in NamesInFastq => ~FullyUnmapped(sampled[k])
    /\ NamesQueued \cap NamesInFastq = {}

\* A paired read whose two mates are unmapped has been queued and has its FASTQ
\* record, next to a read with a mapped mate that is not queued.
C25_Witness ==
    /\ \E k \in 1..Len(sampled) :
         /\ Len(sampled[k].mates) = 2
         /\ FullyUnmapped(sampled[k])
         /\ sampled[k].name \in NamesQueued
         /\ sampled[k].name \in NamesInFastq
    /\ \E k \in 1..Len(sampled) :
         /\ ~FullyUnmapped(sampled[k])
         /\ sampled[k].name \notin NamesQueued
         /\ sampled[k].name \in NamesInFastq

(***************************************************************************)
(* The construction of the output file writer                              *)
(***************************************************************************)

\* The output paths a run with the options needs: a FASTA per ploid, the pair
\* of FASTQ files, the golden BAM and the golden VCF.
NeededPaths ==
    (IF options.produce_fasta
     THEN IF options.ploidy > 1
          THEN { <<"out_ploid", i, ".fasta.gz">> : i \in 1..options.ploidy }
          ELSE { <<"out.fasta.gz">> }
     ELSE {})
    \cup (IF ~options.produce_fastq THEN {}
          ELSE IF options.paired_ended THEN { <<"out_r1.fastq.gz">>, <<"out_r2.fastq.gz">> }
          ELSE { <<"out.fastq.gz">>, <<"dummy.fastq.gz">> })
    \cup (IF options.produce_bam THEN { <<"out_golden.bam">> } ELSE {})
    \cup (IF options.produce_vcf THEN { <<"out_golden.vcf.gz">> } ELSE {})

\* A needed path cannot be created in the directory d.
Conflict(d) ==
    \E f \in NeededPaths :
        ~d.writable \/ (f \in DOMAIN d.files /\ ~options.overwrite_output)

\* The header map is handed in when a BAM is produced.
HeaderMapGiven == options.produce_bam => bam_header /= None

Constructing == pc \in {"ofw_init", "ofw_validate"}

\* The directory after the VCF header was written into d, and nothing else.
WithVcfHeader(d) ==
    [ writable |-> d.writable,
      files |-> [f \in (DOMAIN d.files) \cup { <<"out_golden.vcf.gz">> } |->
                    IF f = <<"out_golden.vcf.gz">> THEN VCF_HEADER ELSE d.files[f]] ]

FailsUntouched(d) ==
    /\ pc' /= "ofw_ready"
    /\ disk' = d

SucceedsWithHeader(d) ==
    /\ pc' /= "ofw_exception"
    /\ pc' /= "ofw_ready" => disk' = d
    /\ pc' = "ofw_ready" => disk' = IF options.produce_vcf THEN WithVcfHeader(d) ELSE d

\* C18: while the writer is constructed, a needed path that exists without
\* leave to overwrite it, or whose directory cannot be written to, keeps the
\* construction from completing and every file as it was (the VCF header is not
\* written); a construction that fails for any reason leaves every file as it
\* was; without such a path, and with the header map handed in when a BAM is
\* produced, the construction does not fail and completes by writing exactly
\* the VCF header when a VCF is produced, and nothing otherwise.
C18_ValidatedBeforeWriting ==
    [][ Constructing =>
          /\ pc' = "ofw_exception" => disk' = disk
          /\ Conflict(disk) => FailsUntouched(disk)
          /\ (~Conflict(disk) /\ HeaderMapGiven) => SucceedsWithHeader(disk) ]_vars

\* C18 as stated: every construction without such a path completes, whether or
\* not the header map was handed in.
C18_Original ==
    [][ Constructing =>
          /\ Conflict(disk) => FailsUntouched(disk)
          /\ ~Conflict(disk) => SucceedsWithHeader(disk) ]_vars

\* A construction that failed on the golden BAM, which was there already, after
\* the files before it in the list had passed; a VCF is produced, and its file
\* is not there.
C18_Witness ==
    /\ pc = "ofw_exception"
    /\ ofw_i >= 2
    /\ files_to_write[ofw_i] = BAM_FN
    /\ BAM_FN \in DOMAIN disk.files
    /\ disk.writable
    /\ ~options.overwrite_output
    /\ options.produce_vcf
    /\ VCF_FN \notin DOMAIN disk.files

(***************************************************************************)
(* The window loop: extension, progress, carried variants, termination     *)
(***************************************************************************)

\* The window at hand is past the head of the loop and goes to the model engine.
HandedToEngine == pc = "window_body" /\ ~skip_this_window

\* Every variant gathered into the window is overlap bases before the end e.
ClearOfEnd(e) ==
    \A k \in 1..Len(varsInWindow) : Delta(e, structuralVars(varsInWindow)[k]) >= 0

\* C21: for every window handed to the model engine whose end is not the end of
\* its region, every input variant gathered into it sits at least overlap bases
\* before the window's end: (end - 1) - (position + buffer) - 2 - overlap >= 0.
C21_VariantsClearOfOverlap ==
    (HandedToEngine /\ end /= pf) => ClearOfEnd(end)

\* C21 as stated: the same of every window handed to the model engine.
C21_Original == HandedToEngine => ClearOfEnd(end)

\* A window whose end was moved for a variant it gathered, and which is not the
\* last of its region.
C21_Witness ==
    /\ HandedToEngine
    /\ end /= pf
    /\ Len(varsInWindow) > 0
    /\ end > start + bpd
    /\ \E k \in 1..Len(varsInWindow) : Delta(start + bpd, structuralVars(varsInWindow)[k]) < 0

\* C22: the percentages printed for a contig, the closing '100%' included, are
\* strictly increasing and none is above 100; so 100 is printed at most once.
C22_ProgressPrintedOnce ==
    /\ \A k \in 1..Len(printed) : printed[k] <= 100
    /\ \A k \in 1..(Len(printed) - 1) : printed[k] < printed[k + 1]

\* The percentages printed by the window loop alone are strictly increasing.
LoopPrintsIncrease ==
    pc \in {"window", "window_body", "sample"} =>
        \A k \in 1..(Len(printed) - 1) : printed[k] < printed[k + 1]

\* The passes of the extension loop of lines 480-494 that move the end e.
RECURSIVE Extensions(_, _)
Extensions(e, svs) ==
    LET short == { k \in 1..Len(svs) : Delta(e, svs[k]) < 0 }
    IN  IF short = {} THEN 0
        ELSE LET k == CHOOSE x \in short : \A y \in short : x <= y
             IN  1 + Extensions(e - Delta(e, svs[k]), svs)

InWindowLoop == pc \in {"window", "window_body", "sample"}

\* A step that ends an iteration of the window loop.
EndsIteration == pc \in {"window_body", "sample"} /\ pc' \in {"window", "region"}

\* The driver on the runs of the options and of the tilings, with its steps
\* taken as long as one is possible: the process runs until it ends.
\* The runs checked for termination: the option runs and the tiled runs whose
\* regions have a sampled, a skipped and an extended window.
LiveArgs ==
    OptionArgs \cup
    (TilingArgs \ { SingleEnd(RefTriple, Numbered(<< Line("chr1", WinEnd - 1, <<"A">>, <<"C">>) >>)) })

InitLive == InitMain(LiveArgs)

SpecLive == InitLive /\ [][Next]_vars /\ WF_vars(Next)

\* C27: in a region that is not passed over as too small, with a positive
\* overlap, every window starts before the end of the region and the next one
\* starts after it, whether the window was sampled or skipped; the extension
\* loop moves the end at most once per variant gathered; the last window of the
\* region ends at the end of the region; and the window loop is left.
C27_WindowLoopTerminates ==
    /\ [][ /\ (InWindowLoop /\ overlap > 0) => start < pf
           /\ (EndsIteration /\ pc' = "window") => (start' > start /\ start' < pf)
           /\ (pc = "window" /\ pc' = "window_body") =>
                 Extensions(end, structuralVars(varsInWindow')) <= Len(varsInWindow')
           /\ (EndsIteration /\ pc' = "region") => end = pf ]_vars
    /\ (InWindowLoop ~> ~InWindowLoop)

\* C27 witness: the loop has left a region of three windows, one of them made
\* longer for a variant and one skipped.
C27_Witness ==
    /\ pc = "region"
    /\ \E a, b, c \in 1..Len(windows) :
         /\ a < b /\ b < c
         /\ SameRegion(windows[a], windows[b]) /\ SameRegion(windows[b], windows[c])
         /\ windows[a].start < windows[b].start /\ windows[b].start < windows[c].start
         /\ \E x \in {a, b, c} : windows[x].skipped
         /\ \E x \in {a, b, c} : ~windows[x].skipped /\ windows[x].end - windows[x].start > bpd
         /\ windows[c].contig = RI /\ windows[c].region = region_i - 1
         /\ windows[c].end = N_regions_non_N[region_i - 1][2]

\* The variants window w received from the window before it.
CarriedInto(w) == { windows[w].carried[k] : k \in 1..Len(windows[w].carried) }

\* C28: every variant carried into a window that is handed to the model engine
\* lies inside the window's span [start, end); and a window that follows a
\* skipped window of its region receives no carried variant.
C28_CarriedInsideNextWindow ==
    \A w \in 1..Len(windows) :
        /\ ~windows[w].skipped =>
              \A v \in CarriedInto(w) : windows[w].start <= v.pos /\ v.pos < windows[w].end
        /\ (w > 1 /\ SameRegion(windows[w - 1], windows[w]) /\ windows[w - 1].skipped) =>
              CarriedInto(w) = {}

\* What holds of the carried variants: none is more than one position before
\* the window, and none follows a skipped window.
CarriedFromOnePositionBefore ==
    \A w \in 1..Len(windows) :
        /\ ~windows[w].skipped =>
              \A v \in CarriedInto(w) : windows[w].start - 1 <= v.pos /\ v.pos < windows[w].end
        /\ (w > 1 /\ SameRegion(windows[w - 1], windows[w]) /\ windows[w - 1].skipped) =>
              CarriedInto(w) = {}

(***************************************************************************)
(* The VCF of a contig                                                     *)
(***************************************************************************)

\* The variant tuple a VCF data line was written for.
KeyOf(line) ==
    [pos |-> DecimalValue(line.pos) - 1, ref |-> line.ref, alts |-> line.alt, info |-> line.info]

\* The variants random_mutations returned for the windows of contig c.
RealizedOn(c) ==
    UNION { { windows[w].realized[k] : k \in 1..Len(windows[w].realized) } :
              w \in { x \in 1..Len(windows) : windows[x].contig = c } }

WindowsDone == pc = "region" /\ region_i > Len(N_regions_non_N)

\* The lines a step appends to the VCF.
NewLines == SubSeq(vcf', Len(vcf) + 1, Len(vcf'))

\* C24: VCF data lines are written only when the windows of the contig are
\* exhausted, after the lines written before; the lines written then are under
\* the contig's name, in strictly ascending order of the variant key, and their
\* keys are exactly the variants realized in the windows of this contig: one
\* line for each, however many windows returned it.
C24_VcfAfterWindows ==
    [][ /\ vcf' /= vcf => (WindowsDone /\ SAVE_VCF)
        /\ (WindowsDone /\ pc' = "contig" /\ SAVE_VCF) =>
              /\ Len(vcf') >= Len(vcf) /\ SubSeq(vcf', 1, Len(vcf)) = vcf
              /\ \A k \in 1..Len(NewLines) : NewLines[k].chrom = refName
              /\ \A k \in 1..(Len(NewLines) - 1) :
                    VariantBefore(KeyOf(NewLines[k]), KeyOf(NewLines[k + 1]))
              /\ { KeyOf(NewLines[k]) : k \in 1..Len(NewLines) } = RealizedOn(RI) ]_vars

\* C24 witness: the lines of a contig are written; a variant returned by two of
\* its windows has one line, and there is a line before it.
C24_Witness ==
    /\ pc = "contig" /\ RI > 1 /\ SAVE_VCF
    /\ \E w1, w2 \in 1..Len(windows) :
         /\ w1 < w2
         /\ windows[w1].contig = RI - 1 /\ windows[w2].contig = RI - 1
         /\ \E v \in RealizedOn(RI - 1) :
              /\ \E k \in 1..Len(windows[w1].realized) : windows[w1].realized[k] = v
              /\ \E k \in 1..Len(windows[w2].realized) : windows[w2].realized[k] = v
              /\ Cardinality({ k \in 1..Len(vcf) : KeyOf(vcf[k]) = v }) = 1
              /\ \E k \in 1..Len(vcf) : VariantBefore(KeyOf(vcf[k]), v)

(***************************************************************************)
(* The mutation-rate BED file                                              *)
(***************************************************************************)

\* The list of contig c in the table d, before anything was recorded for it.
ListOf(d, c, first) == IF c \in DOMAIN d THEN d[c] ELSE << first >>

ParsingLine == pc = "mutbed" /\ MUT_BED /= None /\ mut_i <= Len(Val(MUT_BED))

\* C26: parsing a line with a MUT_RATE token and a region longer than 1 ends
\* without error and adds, for the line's contig, the two boundaries to the
\* boundary list and the rate bounded by 0 and 0.3 to the value list; a line
\* without the token or with a region of length 1 or less leaves both tables as
\* they were.
C26_MutRateLineRecorded ==
    [][ ParsingLine =>
          LET line == Val(MUT_BED)[mut_i]
          IN  IF MutLineCounts(line)
              THEN /\ pc' /= "mutbed_exception"
                   /\ mutRateRegions'[line.myChr] =
                         ListOf(mutRateRegions, line.myChr, -1) \o << line.pos1, line.pos2 >>
                   /\ \E rate \in 0..300 :
                         /\ rate = mutStr(line.metaData)[1].value
                               \/ (rate = 0 /\ mutStr(line.metaData)[1].value < 0)
                               \/ (rate = 300 /\ mutStr(line.metaData)[1].value > 300)
                         /\ \E n \in 1..2 :
                               mutRateValues'[line.myChr] =
                                  ListOf(mutRateValues, line.myChr, 0) \o [k \in 1..n |-> rate]
              ELSE /\ pc' /= "mutbed_exception"
                   /\ UNCHANGED <<mutRateRegions, mutRateValues>> ]_vars

\* The part of C26 about the lines that do not count.
IgnoredLinesLeaveTables ==
    [][ (ParsingLine /\ ~MutLineCounts(Val(MUT_BED)[mut_i])) =>
          (pc' /= "mutbed_exception" /\ UNCHANGED <<mutRateRegions, mutRateValues>>) ]_vars

====
